---- MODULE Spec2Model ----
(***************************************************************************)
(* Roony governance: the spending checker (policy evaluator), the          *)
(* request_purchase handler (request router) and the in-memory storage     *)
(* provider, as a state machine.                                           *)
(*                                                                         *)
(* Representation.                                                         *)
(*  - An optional value (a TypeScript `T | undefined`, or a Map lookup     *)
(*    that may miss) is a sequence: <<>> when absent, <<v>> when present.  *)
(*  - A money amount is an integer number of currency units.               *)
(*  - A merchant name or a list entry is a sequence of one-character       *)
(*    strings; a message is a sequence of text fragments.                  *)
(***************************************************************************)
EXTENDS Integers, Sequences, FiniteSets, TLC

VARIABLES
    agents,            \* InMemoryStorageProvider.agents: agent id -> optional Agent
    organizations,     \* InMemoryStorageProvider.organizations: org id -> optional Organization
    spendTracking,     \* InMemoryStorageProvider.spendTracking: key -> [daily, monthly]
    merchants,         \* InMemoryStorageProvider.merchants: org id -> set of lower-cased names
    purchaseIntents,   \* InMemoryStorageProvider.purchaseIntents, in creation order
    pendingApprovals,  \* InMemoryStorageProvider.pendingApprovals, in creation order
    cards,             \* MockPaymentProvider.cards, in creation order
    inflight,          \* the tools/call requests being handled: request id -> its position
    last,              \* the last operation performed, with its input and what it returned
    tools              \* MCPServer.tools of the generic server: tool name -> optional handler

vars == <<agents, organizations, spendTracking, merchants, purchaseIntents,
          pendingApprovals, cards, inflight, last, tools>>

(***************************************************************************)
(* Bounds of the model.                                                    *)
(***************************************************************************)
\* Numeric limits and thresholds range over 0..MaxLimit; amounts over 1..MaxLimit+1.
MaxLimit == 2
\* The evaluator is explored on every policy with at most this many controls configured.
MaxConfigured == 2
\* The number of request_purchase invocations in a run of the router.
MaxRequests == 2

Amounts == 1..(MaxLimit + 1)
SpendValues == {0, 1}

\* The ids of the JSON-RPC requests that may be in flight together.
RequestIds == {"r1", "r2"}

\* No request is being handled.
NoneInFlight == [r \in RequestIds |-> [pc |-> "idle"]]

\* The names a tool of the generic server may be registered under.
ServerToolNames == {"", "echo", "fetch"}

\* A generic server constructed without tools.
NoTools == [n \in ServerToolNames |-> << >>]

(***************************************************************************)
(* Optional values and JavaScript truthiness.                              *)
(***************************************************************************)
Undefined == <<>>
Some(v) == <<v>>
IsSet(o) == o # <<>>
\* `if (x)` on an optional number: undefined and 0 are both falsy.
TruthyNum(o) == o # <<>> /\ o[1] # 0
\* `list && list.length > 0`
NonEmptyList(o) == o # <<>> /\ Len(o[1]) > 0

(***************************************************************************)
(* Strings.                                                                *)
(***************************************************************************)
Chars == {"a", "A", "b", "B"}

ToLowerChar(c) == CASE c = "A" -> "a" [] c = "B" -> "b" [] OTHER -> c

\* String.prototype.toLowerCase
toLowerCase(s) == [i \in 1..Len(s) |-> ToLowerChar(s[i])]

\* String.prototype.includes: pat occurs in s as a contiguous run
includes(s, pat) ==
    \E i \in 0..(Len(s) - Len(pat)) :
        \A j \in 1..Len(pat) : s[i + j] = pat[j]

\* EntryMatches without the lower-casing of both sides.
EntryMatchesCaseSensitive(merchantName, entry) == includes(merchantName, entry)

\* Array.prototype.some over list entries: merchantLower.includes(entry.toLowerCase())
EntryMatches(merchantName, entry) ==
    includes(toLowerCase(merchantName), toLowerCase(entry))

SomeEntryMatches(merchantName, list) ==
    \E k \in 1..Len(list) : EntryMatches(merchantName, list[k])

\* Number.prototype.toFixed(2) of a whole amount
toFixed2(n) == ToString(n) \o ".00"

MerchantNames == { <<"A", "b">>, <<"b", "a">>, <<"B">> }
Entries == { <<"a", "B">>, <<"A">> }
EntryLists == { <<>>, << <<"a", "B">> >>, << <<"A">> >>, << <<"A">>, <<"a", "B">> >> }

(***************************************************************************)
(* Identifiers.  One agent id has the shape of a spend-tracking key of an  *)
(* organization: ids are arbitrary strings.                                *)
(***************************************************************************)
OrgIds == {"o1", "o2"}
AgentIds == {"a1", "org:o1"}

\* `org:${orgId}`
OrgKey(orgId) == "org:" \o orgId

SpendKeys == AgentIds \cup { OrgKey(o) : o \in OrgIds }

NoGuardrails ==
    [maxTransactionAmount |-> Undefined, requireApprovalAbove |-> Undefined,
     flagAllNewVendors |-> FALSE, blockCategories |-> Undefined]

(***************************************************************************)
(* The policies an administrator can configure (types Agent, Organization, *)
(* OrgGuardrails).                                                         *)
(***************************************************************************)
OptNums == {Undefined} \cup { Some(v) : v \in 0..MaxLimit }
OptLists == {Undefined} \cup { Some(l) : l \in EntryLists }

AgentPolicies ==
    [perTransactionLimit : OptNums, dailyLimit : OptNums, monthlyLimit : OptNums,
     approvalThreshold : OptNums, flagNewVendors : BOOLEAN,
     blockedMerchants : OptLists, allowedMerchants : OptLists]

GuardrailSets ==
    [maxTransactionAmount : OptNums, requireApprovalAbove : OptNums,
     flagAllNewVendors : BOOLEAN, blockCategories : OptLists]

OrgPolicies ==
    [monthlyBudget : OptNums,
     guardrails : {Undefined} \cup { Some(g) : g \in GuardrailSets \ {NoGuardrails} }]

B2N(b) == IF b THEN 1 ELSE 0

\* How many controls a policy configures.
AgentConfigured(p) ==
    B2N(IsSet(p.perTransactionLimit)) + B2N(IsSet(p.dailyLimit))
    + B2N(IsSet(p.monthlyLimit)) + B2N(IsSet(p.approvalThreshold))
    + B2N(p.flagNewVendors) + B2N(IsSet(p.blockedMerchants))
    + B2N(IsSet(p.allowedMerchants))

GuardrailsOf(o) == IF o.guardrails = Undefined THEN NoGuardrails ELSE o.guardrails[1]

OrgConfigured(o) ==
    B2N(IsSet(o.monthlyBudget)) + B2N(IsSet(GuardrailsOf(o).maxTransactionAmount))
    + B2N(IsSet(GuardrailsOf(o).requireApprovalAbove))
    + B2N(GuardrailsOf(o).flagAllNewVendors)
    + B2N(IsSet(GuardrailsOf(o).blockCategories))

AgentPoliciesUpTo(k) == { p \in AgentPolicies : AgentConfigured(p) <= k }
OrgPoliciesUpTo(k) == { o \in OrgPolicies : OrgConfigured(o) <= k }

NoAgentPolicy ==
    [perTransactionLimit |-> Undefined, dailyLimit |-> Undefined,
     monthlyLimit |-> Undefined, approvalThreshold |-> Undefined,
     flagNewVendors |-> FALSE, blockedMerchants |-> Undefined,
     allowedMerchants |-> Undefined]

\* An Agent / Organization record: identity plus policy.
MkAgent(id, orgId, p) ==
    [id |-> id, organizationId |-> orgId, status |-> "active",
     perTransactionLimit |-> p.perTransactionLimit, dailyLimit |-> p.dailyLimit,
     monthlyLimit |-> p.monthlyLimit, approvalThreshold |-> p.approvalThreshold,
     flagNewVendors |-> p.flagNewVendors, blockedMerchants |-> p.blockedMerchants,
     allowedMerchants |-> p.allowedMerchants]

MkOrg(id, o) == [id |-> id, monthlyBudget |-> o.monthlyBudget, guardrails |-> o.guardrails]

(***************************************************************************)
(* Storage reads (InMemoryStorageProvider).                                *)
(***************************************************************************)
getAgent(agentId) == agents[agentId]

getOrganization(orgId) == organizations[orgId]

getAgentSpend(agentId, period) == spendTracking[agentId][period]

getOrgSpend(orgId, period) == spendTracking[OrgKey(orgId)][period]

\* isNewVendor taking every vendor for known once the organization has a record.
isNewVendorOfEmptyRecord(orgId, merchantName) == merchants[orgId] = {}

isNewVendor(orgId, merchantName) == toLowerCase(merchantName) \notin merchants[orgId]

(***************************************************************************)
(* SpendingChecker.checkSpending                                           *)
(***************************************************************************)
Reject(code, message) ==
    [allowed |-> FALSE, requiresApproval |-> FALSE, approvalReason |-> Undefined,
     rejectionCode |-> Some(code), rejectionMessage |-> Some(message)]

\* NeedsApproval with the verdict not yet allowed.
NeedsApprovalNotAllowed(reason) ==
    [allowed |-> FALSE, requiresApproval |-> TRUE, approvalReason |-> Some(reason),
     rejectionCode |-> Undefined, rejectionMessage |-> Undefined]

NeedsApproval(reason) ==
    [allowed |-> TRUE, requiresApproval |-> TRUE, approvalReason |-> Some(reason),
     rejectionCode |-> Undefined, rejectionMessage |-> Undefined]

Approved ==
    [allowed |-> TRUE, requiresApproval |-> FALSE, approvalReason |-> Undefined,
     rejectionCode |-> Undefined, rejectionMessage |-> Undefined]

\* exceeds with the boundary excluded.
exceedsOrEqual(x, limit) == x >= limit

\* The comparison of every limit and threshold check: strictly greater.
exceeds(x, limit) == x > limit

\* approvalChecks with the organization's checks ahead of the agent's.
approvalChecksOrgFirst(request, agent, org, guardrails) ==
    IF TruthyNum(guardrails.requireApprovalAbove)
       /\ exceeds(request.amount, guardrails.requireApprovalAbove[1])
    THEN NeedsApproval(<<"Amount $", toFixed2(request.amount),
                         " exceeds organization approval ", "threshold", " of $",
                         toFixed2(guardrails.requireApprovalAbove[1])>>)
    ELSE IF TruthyNum(agent.approvalThreshold)
            /\ exceeds(request.amount, agent.approvalThreshold[1])
    THEN NeedsApproval(<<"Amount $", toFixed2(request.amount), " exceeds approval ",
                         "threshold", " of $", toFixed2(agent.approvalThreshold[1])>>)
    ELSE IF guardrails.flagAllNewVendors /\ isNewVendor(org.id, request.merchantName)
    THEN NeedsApproval(<<"First purchase from ", "new", " ", "vendor", " \"">>
                       \o request.merchantName \o <<"\"", " (org policy)">>)
    ELSE IF agent.flagNewVendors /\ isNewVendor(org.id, request.merchantName)
    THEN NeedsApproval(<<"First purchase from ", "new", " ", "vendor", " \"">>
                       \o request.merchantName \o <<"\"">>)
    ELSE Approved

\* The approval checks, 10 to 13 of the source, reached when no rejection applies.
approvalChecks(request, agent, org, guardrails) ==
    IF TruthyNum(agent.approvalThreshold) /\ exceeds(request.amount, agent.approvalThreshold[1])
    THEN NeedsApproval(<<"Amount $", toFixed2(request.amount), " exceeds approval ",
                         "threshold", " of $", toFixed2(agent.approvalThreshold[1])>>)
    ELSE IF TruthyNum(guardrails.requireApprovalAbove)
            /\ exceeds(request.amount, guardrails.requireApprovalAbove[1])
    THEN NeedsApproval(<<"Amount $", toFixed2(request.amount),
                         " exceeds organization approval ", "threshold", " of $",
                         toFixed2(guardrails.requireApprovalAbove[1])>>)
    ELSE IF agent.flagNewVendors /\ isNewVendor(org.id, request.merchantName)
    THEN NeedsApproval(<<"First purchase from ", "new", " ", "vendor", " \"">>
                       \o request.merchantName \o <<"\"">>)
    ELSE IF guardrails.flagAllNewVendors /\ isNewVendor(org.id, request.merchantName)
    THEN NeedsApproval(<<"First purchase from ", "new", " ", "vendor", " \"">>
                       \o request.merchantName \o <<"\"", " (org policy)">>)
    ELSE Approved

\* The merchant checks, 7 to 9 of the source.
merchantChecks(request, agent, org, guardrails) ==
    IF NonEmptyList(agent.blockedMerchants)
       /\ SomeEntryMatches(request.merchantName, agent.blockedMerchants[1])
    THEN Reject("MERCHANT_BLOCKED",
                <<"Merchant \"">> \o request.merchantName
                    \o <<"\" is blocked for this agent">>)
    ELSE IF NonEmptyList(agent.allowedMerchants)
            /\ ~SomeEntryMatches(request.merchantName, agent.allowedMerchants[1])
    THEN Reject("MERCHANT_NOT_ALLOWED",
                <<"Merchant \"">> \o request.merchantName
                    \o <<"\" is not in the allowed list">>)
    ELSE IF NonEmptyList(guardrails.blockCategories)
            /\ SomeEntryMatches(request.merchantName, guardrails.blockCategories[1])
    THEN Reject("CATEGORY_BLOCKED",
                <<"Merchant \"">> \o request.merchantName
                    \o <<"\" matches a blocked category">>)
    ELSE approvalChecks(request, agent, org, guardrails)

\* limitChecks with the monthly limit tested ahead of the daily limit.
limitChecksMonthlyFirst(request, agent, org, guardrails) ==
    IF TruthyNum(agent.perTransactionLimit)
       /\ exceeds(request.amount, agent.perTransactionLimit[1])
    THEN Reject("OVER_TRANSACTION_LIMIT",
                <<"Amount $", toFixed2(request.amount),
                  " exceeds per-transaction limit of $",
                  toFixed2(agent.perTransactionLimit[1])>>)
    ELSE IF TruthyNum(guardrails.maxTransactionAmount)
            /\ exceeds(request.amount, guardrails.maxTransactionAmount[1])
    THEN Reject("OVER_ORG_MAX_TRANSACTION",
                <<"Amount $", toFixed2(request.amount),
                  " exceeds organization maximum of $",
                  toFixed2(guardrails.maxTransactionAmount[1])>>)
    ELSE IF TruthyNum(agent.monthlyLimit)
            /\ exceeds(getAgentSpend(agent.id, "monthly") + request.amount,
                       agent.monthlyLimit[1])
    THEN Reject("MONTHLY_LIMIT_EXCEEDED",
                <<"Monthly spend would exceed limit of $", toFixed2(agent.monthlyLimit[1]),
                  " (current: $", toFixed2(getAgentSpend(agent.id, "monthly")), ")">>)
    ELSE IF TruthyNum(agent.dailyLimit)
            /\ exceeds(getAgentSpend(agent.id, "daily") + request.amount, agent.dailyLimit[1])
    THEN Reject("DAILY_LIMIT_EXCEEDED",
                <<"Daily spend would exceed limit of $", toFixed2(agent.dailyLimit[1]),
                  " (current: $", toFixed2(getAgentSpend(agent.id, "daily")), ")">>)
    ELSE IF TruthyNum(org.monthlyBudget)
            /\ exceeds(getOrgSpend(org.id, "monthly") + request.amount, org.monthlyBudget[1])
    THEN Reject("ORG_BUDGET_EXCEEDED",
                <<"Organization monthly budget of $", toFixed2(org.monthlyBudget[1]),
                  " would be exceeded (current: $",
                  toFixed2(getOrgSpend(org.id, "monthly")), ")">>)
    ELSE merchantChecks(request, agent, org, guardrails)

\* The numeric checks, 2 to 6 of the source.
limitChecks(request, agent, org, guardrails) ==
    IF TruthyNum(agent.perTransactionLimit)
       /\ exceeds(request.amount, agent.perTransactionLimit[1])
    THEN Reject("OVER_TRANSACTION_LIMIT",
                <<"Amount $", toFixed2(request.amount),
                  " exceeds per-transaction limit of $",
                  toFixed2(agent.perTransactionLimit[1])>>)
    ELSE IF TruthyNum(guardrails.maxTransactionAmount)
            /\ exceeds(request.amount, guardrails.maxTransactionAmount[1])
    THEN Reject("OVER_ORG_MAX_TRANSACTION",
                <<"Amount $", toFixed2(request.amount),
                  " exceeds organization maximum of $",
                  toFixed2(guardrails.maxTransactionAmount[1])>>)
    ELSE IF TruthyNum(agent.dailyLimit)
            /\ exceeds(getAgentSpend(agent.id, "daily") + request.amount, agent.dailyLimit[1])
    THEN Reject("DAILY_LIMIT_EXCEEDED",
                <<"Daily spend would exceed limit of $", toFixed2(agent.dailyLimit[1]),
                  " (current: $", toFixed2(getAgentSpend(agent.id, "daily")), ")">>)
    ELSE IF TruthyNum(agent.monthlyLimit)
            /\ exceeds(getAgentSpend(agent.id, "monthly") + request.amount,
                       agent.monthlyLimit[1])
    THEN Reject("MONTHLY_LIMIT_EXCEEDED",
                <<"Monthly spend would exceed limit of $", toFixed2(agent.monthlyLimit[1]),
                  " (current: $", toFixed2(getAgentSpend(agent.id, "monthly")), ")">>)
    ELSE IF TruthyNum(org.monthlyBudget)
            /\ exceeds(getOrgSpend(org.id, "monthly") + request.amount, org.monthlyBudget[1])
    THEN Reject("ORG_BUDGET_EXCEEDED",
                <<"Organization monthly budget of $", toFixed2(org.monthlyBudget[1]),
                  " would be exceeded (current: $",
                  toFixed2(getOrgSpend(org.id, "monthly")), ")">>)
    ELSE merchantChecks(request, agent, org, guardrails)

\* checkSpending rejecting the requests of an agent that is not active.
checkSpendingOfActiveAgents(request) ==
    IF getAgent(request.agentId) = Undefined
    THEN Reject("AGENT_NOT_FOUND", <<"Agent not found">>)
    ELSE LET agent == getAgent(request.agentId)[1] IN
         IF agent.status # "active"
         THEN Reject("AGENT_NOT_FOUND", <<"Agent not active">>)
         ELSE IF getOrganization(agent.organizationId) = Undefined
         THEN Reject("AGENT_NOT_FOUND", <<"Organization not found">>)
         ELSE LET org == getOrganization(agent.organizationId)[1]
                  guardrails == IF org.guardrails = Undefined
                                THEN NoGuardrails ELSE org.guardrails[1]
              IN  limitChecks(request, agent, org, guardrails)

checkSpending(request) ==
    IF getAgent(request.agentId) = Undefined
    THEN Reject("AGENT_NOT_FOUND", <<"Agent not found">>)
    ELSE LET agent == getAgent(request.agentId)[1] IN
         IF getOrganization(agent.organizationId) = Undefined
         THEN Reject("AGENT_NOT_FOUND", <<"Organization not found">>)
         ELSE LET org == getOrganization(agent.organizationId)[1]
                  guardrails == IF org.guardrails = Undefined
                                THEN NoGuardrails ELSE org.guardrails[1]
              IN  limitChecks(request, agent, org, guardrails)

(***************************************************************************)
(* SpecEval: the evaluator as a function of the request and of the storage *)
(* state it reads.  The storage state is any state a StorageProvider may   *)
(* present: spend totals are not tied to the limits.                       *)
(***************************************************************************)
Requests ==
    [agentId : {"a1"}, amount : Amounts, currency : {"usd"},
     merchantName : MerchantNames, description : {"d"}]

NoSpend == [daily |-> 0, monthly |-> 0]

KnownSets == { {} } \cup { {toLowerCase(m)} : m \in MerchantNames }

InitEval ==
    /\ \E present \in {"none", "agent", "both"} :
       \E p \in AgentPoliciesUpTo(MaxConfigured) :
       \E o \in OrgPoliciesUpTo(MaxConfigured - AgentConfigured(p)) :
       \E d \in (IF IsSet(p.dailyLimit) THEN SpendValues ELSE {0}) :
       \E m \in (IF IsSet(p.monthlyLimit) THEN SpendValues ELSE {0}) :
       \E os \in (IF IsSet(o.monthlyBudget) THEN SpendValues ELSE {0}) :
       \E known \in (IF p.flagNewVendors \/ GuardrailsOf(o).flagAllNewVendors
                      THEN KnownSets ELSE { {} }) :
         /\ present = "none" => p = NoAgentPolicy
         /\ present # "both" =>
                o = [monthlyBudget |-> Undefined, guardrails |-> Undefined]
         /\ agents = [a \in AgentIds |->
                         IF a = "a1" /\ present # "none"
                         THEN Some(MkAgent("a1", "o1", p)) ELSE Undefined]
         /\ organizations = [x \in OrgIds |->
                         IF x = "o1" /\ present = "both"
                         THEN Some(MkOrg("o1", o)) ELSE Undefined]
         /\ spendTracking = [k \in SpendKeys |->
                         IF k = "a1" THEN [daily |-> d, monthly |-> m]
                         ELSE IF k = OrgKey("o1") THEN [daily |-> os, monthly |-> os]
                         ELSE NoSpend]
         /\ merchants = [x \in OrgIds |-> IF x = "o1" THEN known ELSE {}]
    /\ purchaseIntents = <<>>
    /\ pendingApprovals = <<>>
    /\ cards = <<>>
    /\ inflight = NoneInFlight
    /\ tools = NoTools
    /\ last = [op |-> "none"]

\* One call of SpendingChecker.checkSpending: it reads the storage and writes nothing.
\* A behaviour of SpecEval is one evaluation: a second one on the same storage state
\* is another behaviour from the same initial state.
Evaluate(request) ==
    /\ last.op = "none"
    /\ last' = [op |-> "checkSpending", request |-> request,
                result |-> checkSpending(request)]
    /\ UNCHANGED <<agents, organizations, tools, spendTracking, merchants,
                   purchaseIntents, pendingApprovals, cards, inflight>>

NextEval == \E request \in Requests : Evaluate(request)

SpecEval == InitEval /\ [][NextEval]_vars

(***************************************************************************)
(* Storage writes (InMemoryStorageProvider), as functions of the value     *)
(* they replace.                                                           *)
(***************************************************************************)
\* recordMerchant storing the name as given.
recordMerchantAsGiven(known, orgId, merchantName) ==
    [known EXCEPT ![orgId] = @ \cup {merchantName}]

\* recordMerchant: the lower-cased name joins the organization's set.
recordMerchant(known, orgId, merchantName) ==
    [known EXCEPT ![orgId] = @ \cup {toLowerCase(merchantName)}]

\* trackSpend: first the agent's entry, then the organization's entry `org:<id>`;
\* both are entries of the one spendTracking map.
trackSpend(tracking, agentId, orgId, amount) ==
    LET afterAgent ==
            [tracking EXCEPT ![agentId] =
                [daily |-> @.daily + amount, monthly |-> @.monthly + amount]]
    IN  [afterAgent EXCEPT ![OrgKey(orgId)] =
            [daily |-> @.daily + amount, monthly |-> @.monthly + amount]]

\* createPurchaseIntent: the stored intent is the given one with a fresh id.
fullIntent(intent) ==
    [id |-> Len(purchaseIntents) + 1, organizationId |-> intent.organizationId,
     agentId |-> intent.agentId, amount |-> intent.amount,
     currency |-> intent.currency, description |-> intent.description,
     merchantName |-> intent.merchantName, status |-> intent.status,
     rejectionCode |-> intent.rejectionCode,
     rejectionReason |-> intent.rejectionReason]

\* spendAfterCreate tracking the amount whatever the status of the intent.
spendAfterCreateAnyStatus(intent) ==
    trackSpend(spendTracking, intent.agentId, intent.organizationId, intent.amount)

\* createPurchaseIntent: spend is tracked for approved intents only.
spendAfterCreate(intent) ==
    IF intent.status = "approved"
    THEN trackSpend(spendTracking, intent.agentId, intent.organizationId, intent.amount)
    ELSE spendTracking

\* fullApproval referring to the intent after the one given.
fullApprovalOfNextIntent(approval) ==
    [id |-> Len(pendingApprovals) + 1, purchaseIntentId |-> approval.purchaseIntentId + 1,
     organizationId |-> approval.organizationId, agentId |-> approval.agentId,
     amount |-> approval.amount, merchantName |-> approval.merchantName,
     reason |-> approval.reason, reasonDetails |-> approval.reasonDetails,
     status |-> approval.status]

\* createPendingApproval
fullApproval(approval) ==
    [id |-> Len(pendingApprovals) + 1, purchaseIntentId |-> approval.purchaseIntentId,
     organizationId |-> approval.organizationId, agentId |-> approval.agentId,
     amount |-> approval.amount, merchantName |-> approval.merchantName,
     reason |-> approval.reason, reasonDetails |-> approval.reasonDetails,
     status |-> approval.status]

\* createVirtualCard with a hard limit above the requested amount.
createVirtualCardAboveAmount(request) ==
    [id |-> Len(cards) + 1, purchaseIntentId |-> request.purchaseIntentId,
     hardLimit |-> request.amount + 1, currency |-> request.currency]

\* MockPaymentProvider.createVirtualCard
createVirtualCard(request) ==
    [id |-> Len(cards) + 1, purchaseIntentId |-> request.purchaseIntentId,
     hardLimit |-> request.amount, currency |-> request.currency]

(***************************************************************************)
(* handleRequestPurchase                                                   *)
(***************************************************************************)
\* A tool argument is a JavaScript value: a number, a string or undefined.
Num(n) == [t |-> "number", v |-> n]
Str(x) == [t |-> "string", v |-> x]
NoValue == [t |-> "undefined", v |-> 0]

\* validationError testing merchant_name ahead of currency and description.
validationErrorNameFirst(args) ==
    IF args.amount.t # "number" \/ args.amount.v <= 0
    THEN "Error: 'amount' must be a positive number"
    ELSE IF args.merchant_name.t # "string" THEN "Error: 'merchant_name' is required"
    ELSE IF args.currency.t # "string" THEN "Error: 'currency' is required"
    ELSE IF args.description.t # "string" THEN "Error: 'description' is required"
    ELSE ""

\* The first failing validation, or "" when the arguments are valid.
validationError(args) ==
    IF args.amount.t # "number" \/ args.amount.v <= 0
    THEN "Error: 'amount' must be a positive number"
    ELSE IF args.currency.t # "string" THEN "Error: 'currency' is required"
    ELSE IF args.description.t # "string" THEN "Error: 'description' is required"
    ELSE IF args.merchant_name.t # "string" THEN "Error: 'merchant_name' is required"
    ELSE ""

\* approvalCategory telling the organization's threshold from the agent's.
approvalCategoryOfOrgThreshold(approvalReason) ==
    IF approvalReason # Undefined
       /\ includes(approvalReason[1], <<" exceeds organization approval ">>)
    THEN "ORG_GUARDRAIL"
    ELSE IF approvalReason # Undefined /\ includes(approvalReason[1], <<"threshold">>)
    THEN "OVER_THRESHOLD"
    ELSE IF approvalReason # Undefined /\ includes(approvalReason[1], <<"vendor">>)
    THEN "NEW_VENDOR"
    ELSE "ORG_GUARDRAIL"

\* approvalCategory testing for "vendor" ahead of "threshold".
approvalCategoryVendorFirst(approvalReason) ==
    IF approvalReason # Undefined /\ includes(approvalReason[1], <<"vendor">>)
    THEN "NEW_VENDOR"
    ELSE IF approvalReason # Undefined /\ includes(approvalReason[1], <<"threshold">>)
    THEN "OVER_THRESHOLD"
    ELSE "ORG_GUARDRAIL"

\* The ApprovalReason category derived from the text of approvalReason.
approvalCategory(approvalReason) ==
    IF approvalReason # Undefined /\ includes(approvalReason[1], <<"threshold">>)
    THEN "OVER_THRESHOLD"
    ELSE IF approvalReason # Undefined /\ includes(approvalReason[1], <<"vendor">>)
    THEN "NEW_VENDOR"
    ELSE "ORG_GUARDRAIL"

\* Which of the three paths the handler takes on a verdict.
pathOf(checkResult) ==
    IF ~checkResult.allowed /\ ~checkResult.requiresApproval THEN "rejected"
    ELSE IF checkResult.requiresApproval THEN "pending_approval"
    ELSE "approved"

\* intentOf leaving the rejection code and reason out of the intent.
intentOfWithoutRejection(args, agentId, organizationId, checkResult, status) ==
    [organizationId |-> organizationId, agentId |-> agentId,
     amount |-> args.amount.v, currency |-> args.currency.v,
     description |-> args.description.v, merchantName |-> args.merchant_name.v,
     status |-> status, rejectionCode |-> Undefined, rejectionReason |-> Undefined]

\* intentOf persisting every intent as approved.
intentOfStatusApproved(args, agentId, organizationId, checkResult, status) ==
    [organizationId |-> organizationId, agentId |-> agentId,
     amount |-> args.amount.v, currency |-> args.currency.v,
     description |-> args.description.v, merchantName |-> args.merchant_name.v,
     status |-> "approved",
     rejectionCode |-> IF status = "rejected" THEN checkResult.rejectionCode
                       ELSE Undefined,
     rejectionReason |-> IF status = "rejected" THEN checkResult.rejectionMessage
                         ELSE Undefined]

\* The intent the handler passes to createPurchaseIntent on each path.
intentOf(args, agentId, organizationId, checkResult, status) ==
    [organizationId |-> organizationId, agentId |-> agentId,
     amount |-> args.amount.v, currency |-> args.currency.v,
     description |-> args.description.v, merchantName |-> args.merchant_name.v,
     status |-> status,
     rejectionCode |-> IF status = "rejected" THEN checkResult.rejectionCode
                       ELSE Undefined,
     rejectionReason |-> IF status = "rejected" THEN checkResult.rejectionMessage
                         ELSE Undefined]

handleRequestPurchase(args, agentId, organizationId) ==
    IF validationError(args) # ""
    THEN /\ last' = [op |-> "request_purchase", args |-> args,
                     valid |-> FALSE, isError |-> TRUE,
                     text |-> validationError(args)]
         /\ UNCHANGED <<agents, organizations, tools, spendTracking, merchants,
                        purchaseIntents, pendingApprovals, cards>>
    ELSE
    LET checkResult ==
            checkSpending([agentId |-> agentId, amount |-> args.amount.v,
                           currency |-> args.currency.v,
                           merchantName |-> args.merchant_name.v,
                           description |-> args.description.v])
        status == pathOf(checkResult)
        intent == fullIntent(intentOf(args, agentId, organizationId, checkResult, status))
        card == createVirtualCard([purchaseIntentId |-> intent.id,
                                   organizationId |-> organizationId,
                                   agentId |-> agentId, amount |-> args.amount.v,
                                   currency |-> args.currency.v])
    IN  /\ Len(purchaseIntents) < MaxRequests
        /\ purchaseIntents' = Append(purchaseIntents, intent)
        /\ spendTracking' = spendAfterCreate(intent)
        /\ pendingApprovals' =
              IF status = "pending_approval"
              THEN Append(pendingApprovals,
                          fullApproval([purchaseIntentId |-> intent.id,
                                        organizationId |-> organizationId,
                                        agentId |-> agentId, amount |-> args.amount.v,
                                        merchantName |-> args.merchant_name.v,
                                        reason |-> approvalCategory(checkResult.approvalReason),
                                        reasonDetails |-> checkResult.approvalReason,
                                        status |-> "pending"]))
              ELSE pendingApprovals
        /\ cards' = IF status = "approved" THEN Append(cards, card) ELSE cards
        /\ merchants' = IF status = "approved"
                        THEN recordMerchant(merchants, organizationId, args.merchant_name.v)
                        ELSE merchants
        /\ last' = [op |-> "request_purchase", args |-> args,
                    valid |-> TRUE, isError |-> FALSE,
                    checkResult |-> checkResult, status |-> status,
                    reason_code |-> checkResult.rejectionCode,
                    message |-> IF status = "rejected" THEN checkResult.rejectionMessage
                                ELSE checkResult.approvalReason,
                    purchase_intent_id |-> intent.id,
                    hard_limit_amount |-> args.amount.v]
        /\ UNCHANGED <<agents, organizations, tools>>

\* recordMerchant called from outside the router (the approval workflow).
RecordMerchant(orgId, merchantName) ==
    /\ merchants' = recordMerchant(merchants, orgId, merchantName)
    /\ UNCHANGED <<agents, organizations, tools, spendTracking, purchaseIntents,
                   pendingApprovals, cards, inflight, last>>

(***************************************************************************)
(* Spec: the router over InMemoryStorageProvider and MockPaymentProvider.  *)
(* Two agents of organization o1 are registered with addAgent, and the     *)
(* organization with addOrganization; nothing has been spent.              *)
(***************************************************************************)
RouterMerchants == { <<"A", "b">>, <<"B">> }

RouterAmounts == {1, MaxLimit}

\* The policies the router is run on: one control of the agents or of the
\* organization at a time.
RouterAgentPolicies ==
    { NoAgentPolicy,
      [NoAgentPolicy EXCEPT !.dailyLimit = Some(MaxLimit)],
      [NoAgentPolicy EXCEPT !.monthlyLimit = Some(MaxLimit)],
      [NoAgentPolicy EXCEPT !.approvalThreshold = Some(1)],
      [NoAgentPolicy EXCEPT !.flagNewVendors = TRUE] }

NoOrgPolicy == [monthlyBudget |-> Undefined, guardrails |-> Undefined]

RouterOrgPolicies ==
    { NoOrgPolicy,
      [monthlyBudget |-> Some(MaxLimit), guardrails |-> Undefined],
      [monthlyBudget |-> Undefined,
       guardrails |-> Some([NoGuardrails EXCEPT !.flagAllNewVendors = TRUE])],
      [monthlyBudget |-> Undefined,
       guardrails |-> Some([NoGuardrails EXCEPT !.requireApprovalAbove = Some(1)])] }

\* Which agents are registered, the policy they share, and the organization's policy.
RouterSetups ==
    { <<AgentIds, p, NoOrgPolicy>> : p \in RouterAgentPolicies }
    \cup { <<AgentIds, NoAgentPolicy, o>> : o \in RouterOrgPolicies }
    \cup { <<AgentIds \ {"a1"}, NoAgentPolicy, NoOrgPolicy>> }

ArgBags ==
    { [amount |-> Num(a), currency |-> Str("usd"), description |-> Str("d"),
       merchant_name |-> Str(m)] : a \in RouterAmounts, m \in RouterMerchants }
    \cup { [amount |-> Num(0), currency |-> Str("usd"), description |-> Str("d"),
            merchant_name |-> Str(<<"B">>)] }

Init ==
    /\ \E setup \in RouterSetups :
         /\ agents = [a \in AgentIds |->
                         IF a \in setup[1] THEN Some(MkAgent(a, "o1", setup[2]))
                         ELSE Undefined]
         /\ organizations = [x \in OrgIds |->
                                IF x = "o1" THEN Some(MkOrg("o1", setup[3]))
                                ELSE Undefined]
    /\ spendTracking = [k \in SpendKeys |-> NoSpend]
    /\ merchants = [x \in OrgIds |-> {}]
    /\ purchaseIntents = <<>>
    /\ pendingApprovals = <<>>
    /\ cards = <<>>
    /\ inflight = NoneInFlight
    /\ tools = NoTools
    /\ last = [op |-> "none"]

RequestPurchase ==
    /\ \E args \in ArgBags : \E agentId \in AgentIds : \E organizationId \in OrgIds :
          handleRequestPurchase(args, agentId, organizationId)
    /\ UNCHANGED inflight

\* The merchants the approval workflow records on its own.
ExternalMerchants == { <<"A", "b">> }

ExternalRecordMerchant ==
    \E orgId \in OrgIds : \E m \in ExternalMerchants : RecordMerchant(orgId, m)

Next == RequestPurchase \/ ExternalRecordMerchant

Spec == Init /\ [][Next]_vars

(***************************************************************************)
(* SpecAsync: tools/call requests for request_purchase handled             *)
(* concurrently by RoonyMCPServer.handleRequest.  Every `await` of the     *)
(* handler and of checkSpending is a point where another request may run;  *)
(* a step of a request is the code between two of them.  A storage read is *)
(* taken in the step that uses it: the decision made on a value is local,  *)
(* so taking the read at the call or at the resumption gives the same      *)
(* storage states and responses.  A collaborator call may throw instead of *)
(* performing its effect.                                                  *)
(***************************************************************************)
\* MCPErrorCodes.InternalError, by name
InternalError == "InternalError"

\* textResult(text, true)
textResult(text) == [isError |-> TRUE, text |-> text]

\* jsonResult(data)
jsonResult(data) == [isError |-> FALSE, data |-> data]

\* errorResponse answering with a tool result that carries the message.
errorResponseAsToolResult(id, code, message) ==
    [jsonrpc |-> "2.0", id |-> id, result |-> Some(textResult(message)),
     error |-> Undefined]

\* RoonyMCPServer.errorResponse: an `error` member and no `result` member
errorResponse(id, code, message) ==
    [jsonrpc |-> "2.0", id |-> id, result |-> Undefined,
     error |-> Some([code |-> code, message |-> message])]

\* The response handleToolsCall returns for a tool result.
resultResponse(id, result) ==
    [jsonrpc |-> "2.0", id |-> id, result |-> Some(result), error |-> Undefined]

\* The SpendingCheckRequest the handler builds.
requestOf(call) ==
    [agentId |-> call.agentId, amount |-> call.args.amount.v,
     currency |-> call.args.currency.v, merchantName |-> call.args.merchant_name.v,
     description |-> call.args.description.v]

\* The evaluation goes on at the given position.
Pass(next) == [pc |-> next, checkResult |-> Undefined]

\* checkSpending returns: the handler resumes with the verdict.
Return(result) == [pc |-> "persist", checkResult |-> Some(result)]

\* 1. the agent is loaded
agentStage(request) ==
    IF getAgent(request.agentId) = Undefined
    THEN Return(Reject("AGENT_NOT_FOUND", <<"Agent not found">>))
    ELSE Pass("org")

\* 1. the organization is loaded; checks 2 and 3
orgStage(request, agent) ==
    IF getOrganization(agent.organizationId) = Undefined
    THEN Return(Reject("AGENT_NOT_FOUND", <<"Organization not found">>))
    ELSE LET guardrails == GuardrailsOf(getOrganization(agent.organizationId)[1]) IN
         IF TruthyNum(agent.perTransactionLimit)
            /\ exceeds(request.amount, agent.perTransactionLimit[1])
         THEN Return(Reject("OVER_TRANSACTION_LIMIT",
                            <<"Amount $", toFixed2(request.amount),
                              " exceeds per-transaction limit of $",
                              toFixed2(agent.perTransactionLimit[1])>>))
         ELSE IF TruthyNum(guardrails.maxTransactionAmount)
                 /\ exceeds(request.amount, guardrails.maxTransactionAmount[1])
         THEN Return(Reject("OVER_ORG_MAX_TRANSACTION",
                            <<"Amount $", toFixed2(request.amount),
                              " exceeds organization maximum of $",
                              toFixed2(guardrails.maxTransactionAmount[1])>>))
         ELSE Pass("daily")

\* 4. the daily limit, on the daily spend read now
dailyStage(request, agent) ==
    IF TruthyNum(agent.dailyLimit)
       /\ exceeds(getAgentSpend(agent.id, "daily") + request.amount, agent.dailyLimit[1])
    THEN Return(Reject("DAILY_LIMIT_EXCEEDED",
                       <<"Daily spend would exceed limit of $",
                         toFixed2(agent.dailyLimit[1]), " (current: $",
                         toFixed2(getAgentSpend(agent.id, "daily")), ")">>))
    ELSE Pass("monthly")

\* 5. the monthly limit, on the monthly spend read now
monthlyStage(request, agent) ==
    IF TruthyNum(agent.monthlyLimit)
       /\ exceeds(getAgentSpend(agent.id, "monthly") + request.amount,
                  agent.monthlyLimit[1])
    THEN Return(Reject("MONTHLY_LIMIT_EXCEEDED",
                       <<"Monthly spend would exceed limit of $",
                         toFixed2(agent.monthlyLimit[1]), " (current: $",
                         toFixed2(getAgentSpend(agent.id, "monthly")), ")">>))
    ELSE Pass("budget")

\* 6. the organization budget, on the organization spend read now; then the
\* checks 7 to 11, which read nothing from storage
budgetStage(request, agent, org, guardrails) ==
    IF TruthyNum(org.monthlyBudget)
       /\ exceeds(getOrgSpend(org.id, "monthly") + request.amount, org.monthlyBudget[1])
    THEN Return(Reject("ORG_BUDGET_EXCEEDED",
                       <<"Organization monthly budget of $", toFixed2(org.monthlyBudget[1]),
                         " would be exceeded (current: $",
                         toFixed2(getOrgSpend(org.id, "monthly")), ")">>))
    ELSE IF NonEmptyList(agent.blockedMerchants)
            /\ SomeEntryMatches(request.merchantName, agent.blockedMerchants[1])
    THEN Return(Reject("MERCHANT_BLOCKED",
                       <<"Merchant \"">> \o request.merchantName
                           \o <<"\" is blocked for this agent">>))
    ELSE IF NonEmptyList(agent.allowedMerchants)
            /\ ~SomeEntryMatches(request.merchantName, agent.allowedMerchants[1])
    THEN Return(Reject("MERCHANT_NOT_ALLOWED",
                       <<"Merchant \"">> \o request.merchantName
                           \o <<"\" is not in the allowed list">>))
    ELSE IF NonEmptyList(guardrails.blockCategories)
            /\ SomeEntryMatches(request.merchantName, guardrails.blockCategories[1])
    THEN Return(Reject("CATEGORY_BLOCKED",
                       <<"Merchant \"">> \o request.merchantName
                           \o <<"\" matches a blocked category">>))
    ELSE IF TruthyNum(agent.approvalThreshold)
            /\ exceeds(request.amount, agent.approvalThreshold[1])
    THEN Return(NeedsApproval(<<"Amount $", toFixed2(request.amount),
                                " exceeds approval ", "threshold", " of $",
                                toFixed2(agent.approvalThreshold[1])>>))
    ELSE IF TruthyNum(guardrails.requireApprovalAbove)
            /\ exceeds(request.amount, guardrails.requireApprovalAbove[1])
    THEN Return(NeedsApproval(<<"Amount $", toFixed2(request.amount),
                                " exceeds organization approval ", "threshold",
                                " of $", toFixed2(guardrails.requireApprovalAbove[1])>>))
    ELSE Pass("agentVendor")

\* 12. the agent's new-vendor flag, on the vendor history read now
agentVendorStage(request, agent, org) ==
    IF agent.flagNewVendors /\ isNewVendor(org.id, request.merchantName)
    THEN Return(NeedsApproval(<<"First purchase from ", "new", " ", "vendor", " \"">>
                              \o request.merchantName \o <<"\"">>))
    ELSE Pass("orgVendor")

\* 13. the organization's new-vendor flag, on the vendor history read now
orgVendorStage(request, org, guardrails) ==
    IF guardrails.flagAllNewVendors /\ isNewVendor(org.id, request.merchantName)
    THEN Return(NeedsApproval(<<"First purchase from ", "new", " ", "vendor", " \"">>
                              \o request.merchantName \o <<"\"", " (org policy)">>))
    ELSE Return(Approved)

EvaluationStages == {"agent", "org", "daily", "monthly", "budget", "agentVendor", "orgVendor"}

\* The positions at which the request has read a spend total and not yet persisted.
SpendReadStages == {"monthly", "budget", "agentVendor", "orgVendor", "persist"}

\* The positions at which the next step calls a collaborator that writes.
WriteStages == {"persist", "approval", "card", "record"}

\* The step of checkSpending at the position of the call.
evaluationStep(call) ==
    LET request == requestOf(call)
        agent == getAgent(call.agentId)[1]
        org == getOrganization(agent.organizationId)[1]
        guardrails == GuardrailsOf(org)
    IN  CASE call.pc = "agent" -> agentStage(request)
          [] call.pc = "org" -> orgStage(request, agent)
          [] call.pc = "daily" -> dailyStage(request, agent)
          [] call.pc = "monthly" -> monthlyStage(request, agent)
          [] call.pc = "budget" -> budgetStage(request, agent, org, guardrails)
          [] call.pc = "agentVendor" -> agentVendorStage(request, agent, org)
          [] call.pc = "orgVendor" -> orgVendorStage(request, org, guardrails)

\* handleRequest receives a tools/call for request_purchase: the arguments are
\* validated and, when valid, checkSpending is called.
Receive(id, args, agentId, organizationId) ==
    /\ inflight[id].pc = "idle"
    /\ inflight' = [inflight EXCEPT ![id] =
          IF validationError(args) # ""
          THEN [pc |-> "done", args |-> args, agentId |-> agentId,
                organizationId |-> organizationId, checkResult |-> Undefined,
                intentId |-> Undefined, stale |-> FALSE,
                response |-> Some(resultResponse(id, textResult(validationError(args))))]
          ELSE [pc |-> "agent", args |-> args, agentId |-> agentId,
                organizationId |-> organizationId, checkResult |-> Undefined,
                intentId |-> Undefined, stale |-> FALSE, response |-> Undefined]]
    /\ UNCHANGED <<agents, organizations, tools, spendTracking, merchants, purchaseIntents,
                   pendingApprovals, cards, last>>

\* EvaluationStep recording the merchant as known while it evaluates.
EvaluationStepRecordingMerchant(id) ==
    /\ inflight[id].pc \in EvaluationStages
    /\ inflight' = [inflight EXCEPT ![id].pc = evaluationStep(inflight[id]).pc,
                                    ![id].checkResult =
                                        evaluationStep(inflight[id]).checkResult]
    /\ merchants' = recordMerchant(merchants, inflight[id].organizationId,
                                   inflight[id].args.merchant_name.v)
    /\ UNCHANGED <<agents, organizations, tools, spendTracking, purchaseIntents,
                   pendingApprovals, cards, last>>

\* One step of checkSpending for the request.
EvaluationStep(id) ==
    /\ inflight[id].pc \in EvaluationStages
    /\ inflight' = [inflight EXCEPT ![id].pc = evaluationStep(inflight[id]).pc,
                                    ![id].checkResult =
                                        evaluationStep(inflight[id]).checkResult]
    /\ UNCHANGED <<agents, organizations, tools, spendTracking, merchants, purchaseIntents,
                   pendingApprovals, cards, last>>

\* The handler resumes with the verdict and calls createPurchaseIntent; on a
\* rejection it then returns.  `stale` notes, for the other requests, that spend
\* was added after they read it.
PersistStep(id) ==
    LET call == inflight[id]
        checkResult == call.checkResult[1]
        status == pathOf(checkResult)
        intent == fullIntent(intentOf(call.args, call.agentId, call.organizationId,
                                      checkResult, status))
    IN  /\ call.pc = "persist"
        /\ purchaseIntents' = Append(purchaseIntents, intent)
        /\ spendTracking' = spendAfterCreate(intent)
        /\ inflight' = [r \in RequestIds |->
              IF r = id
              THEN [call EXCEPT
                      !.pc = CASE status = "rejected" -> "done"
                               [] status = "pending_approval" -> "approval"
                               [] OTHER -> "card",
                      !.intentId = Some(intent.id),
                      !.response =
                          IF status = "rejected"
                          THEN Some(resultResponse(id, jsonResult(
                                   [status |-> "rejected",
                                    reason_code |-> checkResult.rejectionCode,
                                    message |-> checkResult.rejectionMessage])))
                          ELSE Undefined]
              ELSE IF status = "approved" /\ inflight[r].pc \in SpendReadStages
              THEN [inflight[r] EXCEPT !.stale = TRUE]
              ELSE inflight[r]]
        /\ UNCHANGED <<agents, organizations, tools, merchants, pendingApprovals, cards, last>>

\* The pending path: createPendingApproval, then the handler returns.
ApprovalStep(id) ==
    LET call == inflight[id]
        checkResult == call.checkResult[1]
    IN  /\ call.pc = "approval"
        /\ pendingApprovals' =
              Append(pendingApprovals,
                     fullApproval([purchaseIntentId |-> call.intentId[1],
                                   organizationId |-> call.organizationId,
                                   agentId |-> call.agentId,
                                   amount |-> call.args.amount.v,
                                   merchantName |-> call.args.merchant_name.v,
                                   reason |-> approvalCategory(checkResult.approvalReason),
                                   reasonDetails |-> checkResult.approvalReason,
                                   status |-> "pending"]))
        /\ inflight' = [inflight EXCEPT
              ![id].pc = "done",
              ![id].response = Some(resultResponse(id, jsonResult(
                                  [status |-> "pending_approval",
                                   message |-> checkResult.approvalReason,
                                   purchase_intent_id |-> call.intentId[1]])))]
        /\ UNCHANGED <<agents, organizations, tools, spendTracking, merchants,
                       purchaseIntents, cards, last>>

\* The approved path: createVirtualCard.
CardStep(id) ==
    LET call == inflight[id] IN
    /\ call.pc = "card"
    /\ cards' = Append(cards,
                       createVirtualCard([purchaseIntentId |-> call.intentId[1],
                                          organizationId |-> call.organizationId,
                                          agentId |-> call.agentId,
                                          amount |-> call.args.amount.v,
                                          currency |-> call.args.currency.v]))
    /\ inflight' = [inflight EXCEPT ![id].pc = "record"]
    /\ UNCHANGED <<agents, organizations, tools, spendTracking, merchants, purchaseIntents,
                   pendingApprovals, last>>

\* The approved path: recordMerchant, then the handler returns.
RecordStep(id) ==
    LET call == inflight[id] IN
    /\ call.pc = "record"
    /\ merchants' = recordMerchant(merchants, call.organizationId,
                                   call.args.merchant_name.v)
    /\ inflight' = [inflight EXCEPT
          ![id].pc = "done",
          ![id].response = Some(resultResponse(id, jsonResult(
                              [status |-> "approved",
                               hard_limit_amount |-> call.args.amount.v,
                               currency |-> call.args.currency.v,
                               purchase_intent_id |-> call.intentId[1]])))]
    /\ UNCHANGED <<agents, organizations, tools, spendTracking, purchaseIntents,
                   pendingApprovals, cards, last>>

\* Throw taking the amount back out of the spend when createVirtualCard throws.
ThrowRollingBack(id) ==
    /\ inflight[id].pc \in EvaluationStages \cup WriteStages
    /\ inflight' = [inflight EXCEPT
          ![id].pc = "failed",
          ![id].response =
              Some(errorResponse(id, InternalError, "collaborator failure"))]
    /\ spendTracking' =
          IF inflight[id].pc = "card"
          THEN trackSpend(spendTracking, inflight[id].agentId,
                          inflight[id].organizationId,
                          0 - inflight[id].args.amount.v)
          ELSE spendTracking
    /\ UNCHANGED <<agents, organizations, tools, merchants, purchaseIntents,
                   pendingApprovals, cards, last>>

\* The collaborator call the request is waiting on throws: the call has no
\* effect, and the catch of handleRequest answers with an internal error.
Throw(id) ==
    /\ inflight[id].pc \in EvaluationStages \cup WriteStages
    /\ inflight' = [inflight EXCEPT
          ![id].pc = "failed",
          ![id].response =
              Some(errorResponse(id, InternalError, "collaborator failure"))]
    /\ UNCHANGED <<agents, organizations, tools, spendTracking, merchants, purchaseIntents,
                   pendingApprovals, cards, last>>

\* The requests sent concurrently: by agent a1, with its organization's id.
AsyncArgBags ==
    { [amount |-> Num(a), currency |-> Str("usd"), description |-> Str("d"),
       merchant_name |-> Str(<<"B">>)] : a \in RouterAmounts }
    \cup { [amount |-> Num(0), currency |-> Str("usd"), description |-> Str("d"),
            merchant_name |-> Str(<<"B">>)] }

ReceiveRequest ==
    \E id \in RequestIds : \E args \in AsyncArgBags : Receive(id, args, "a1", "o1")

InitAsync == Init

NextAsync ==
    \/ ReceiveRequest
    \/ \E id \in RequestIds : EvaluationStep(id)
    \/ \E id \in RequestIds : PersistStep(id)
    \/ \E id \in RequestIds : ApprovalStep(id)
    \/ \E id \in RequestIds : CardStep(id)
    \/ \E id \in RequestIds : RecordStep(id)
    \/ \E id \in RequestIds : Throw(id)

SpecAsync == InitAsync /\ [][NextAsync]_vars

(***************************************************************************)
(* SpecCategory: the derivation of the PendingApproval reason category as  *)
(* a function of the approvalReason text.  A text is a sequence of         *)
(* fragments; the words the handler looks for are fragments of their own,  *)
(* and no other fragments join into them.                                  *)
(***************************************************************************)
\* The longest approvalReason text, in fragments.
MaxFragments == 3

Fragments == {"threshold", "vendor", "Vendor", "guardrail"}

\* checkResult.approvalReason: absent, or a text
ApprovalReasons ==
    {Undefined}
    \cup { Some(t) : t \in UNION { [1..n -> Fragments] : n \in 0..MaxFragments } }

InitCategory ==
    /\ agents = [a \in AgentIds |-> Undefined]
    /\ organizations = [x \in OrgIds |-> Undefined]
    /\ spendTracking = [k \in SpendKeys |-> NoSpend]
    /\ merchants = [x \in OrgIds |-> {}]
    /\ purchaseIntents = <<>>
    /\ pendingApprovals = <<>>
    /\ cards = <<>>
    /\ inflight = NoneInFlight
    /\ tools = NoTools
    /\ \E approvalReason \in ApprovalReasons :
          last = [op |-> "approvalReason", approvalReason |-> approvalReason]

\* The handler derives the category of the approvalReason it was given.
DeriveCategory ==
    /\ last.op = "approvalReason"
    /\ last' = [op |-> "approvalCategory", approvalReason |-> last.approvalReason,
                reason |-> approvalCategory(last.approvalReason)]
    /\ UNCHANGED <<agents, organizations, tools, spendTracking, merchants, purchaseIntents,
                   pendingApprovals, cards, inflight>>

NextCategory == DeriveCategory

SpecCategory == InitCategory /\ [][NextCategory]_vars

(***************************************************************************)
(* SpecValidation: request_purchase on argument bags of every shape, by    *)
(* agent a1 with its organization's id, one call after the other; a call   *)
(* with invalid arguments ends the run.                                    *)
(***************************************************************************)
\* A JavaScript value of the given typeof; v is its printed form, written in
\* the representation of the argument it is passed as.
Value(t, v) == [t |-> t, v |-> v]

\* Argument bags: each argument well-formed, of another type, or missing.
AnyArgBags ==
    [amount : {Num(1), Num(0), Num(0 - 1), Value("string", 1), NoValue},
     currency : {Str("usd"), Value("number", "1"), Value("undefined", "")},
     description : {Str("d"), Value("undefined", "")},
     merchant_name : {Str(<<"B">>), Value("number", <<"1">>), Value("undefined", <<>>)}]

InitValidation == Init

RequestWithAnyArguments ==
    /\ last.op = "none" \/ (last.op = "request_purchase" /\ last.valid)
    /\ \E args \in AnyArgBags : handleRequestPurchase(args, "a1", "o1")
    /\ UNCHANGED inflight

NextValidation == RequestWithAnyArguments

SpecValidation == InitValidation /\ [][NextValidation]_vars

(***************************************************************************)
(* SpecTools: the read tools check_budget, list_transactions and           *)
(* get_policy_info, called between purchases of agent a1.  A tool result   *)
(* is the JSON text of a value: numbers are written as their digits, and   *)
(* members that are undefined are left out (here: absent).                 *)
(***************************************************************************)
\* JSON text of `x || fallback` for an optional number
numberOr(x, fallback) == IF TruthyNum(x) THEN ToString(x[1]) ELSE fallback

\* JSON text of an optional number: the member is left out when undefined
numberText(x) == IF x = Undefined THEN Undefined ELSE Some(ToString(x[1]))

\* `list?.length ? list : fallback`
listOr(list, fallback) ==
    IF NonEmptyList(list) THEN [list |-> list[1]] ELSE [text |-> fallback]

\* Math.max(0, a - b), as text
remainingText(limit, spent) ==
    IF TruthyNum(limit)
    THEN ToString(IF limit[1] - spent > 0 THEN limit[1] - spent ELSE 0)
    ELSE "unlimited"

\* Number.prototype.toFixed(1) of spent / budget * 100
percentFixed1(spent, budget) ==
    LET tenths == (2000 * spent + budget) \div (2 * budget)
    IN  ToString(tenths \div 10) \o "." \o ToString(tenths % 10)

\* InMemoryStorageProvider.getAgentBudget, for an agent that exists (agents
\* carry no name here, so agentName is left out)
getAgentBudget(agent) ==
    [limits |-> [perTransaction |-> agent.perTransactionLimit,
                 daily |-> agent.dailyLimit,
                 monthly |-> agent.monthlyLimit],
     currentSpend |-> [daily |-> ToString(getAgentSpend(agent.id, "daily")),
                       monthly |-> ToString(getAgentSpend(agent.id, "monthly"))],
     remaining |-> [daily |-> remainingText(agent.dailyLimit,
                                            getAgentSpend(agent.id, "daily")),
                    monthly |-> remainingText(agent.monthlyLimit,
                                              getAgentSpend(agent.id, "monthly"))]]

\* InMemoryStorageProvider.getBudgetUtilization: budget is
\* `org?.monthlyBudget || null`; percentUsed is kept as the exact ratio
\* <<spent, budget>> that stands for spent / budget * 100
getBudgetUtilization(orgId) ==
    LET budget == IF getOrganization(orgId) # Undefined
                     /\ TruthyNum(getOrganization(orgId)[1].monthlyBudget)
                  THEN getOrganization(orgId)[1].monthlyBudget
                  ELSE Undefined
        spent == getOrgSpend(orgId, "monthly")
    IN  [orgBudget |-> budget,
         orgSpent |-> spent,
         orgRemaining |-> IF budget # Undefined THEN Some(budget[1] - spent) ELSE Undefined,
         percentUsed |-> IF budget # Undefined THEN Some(<<spent, budget[1]>>)
                         ELSE Undefined]

\* handleCheckBudget; `period` is `args.period || "all"`.  With no budget,
\* `percentUsed?.toFixed(1) + "%"` is the text "undefined%"
handleCheckBudget(period, agentId, organizationId) ==
    IF getAgent(agentId) = Undefined THEN textResult("Error: Agent not found")
    ELSE
    LET agentBudget == getAgentBudget(getAgent(agentId)[1])
        orgBudget == getBudgetUtilization(organizationId)
    IN  IF period \in {"daily", "monthly"}
        THEN jsonResult([agent_id |-> agentId, period |-> period,
                         limit |-> numberOr(agentBudget.limits[period], "unlimited"),
                         spent |-> agentBudget.currentSpend[period],
                         remaining |-> agentBudget.remaining[period]])
        ELSE jsonResult(
                 [agent_id |-> agentId, currency |-> "usd",
                  limits |-> [perTransaction |->
                                  numberText(agentBudget.limits.perTransaction),
                              daily |-> numberText(agentBudget.limits.daily),
                              monthly |-> numberText(agentBudget.limits.monthly)],
                  current_spend |-> agentBudget.currentSpend,
                  remaining |-> agentBudget.remaining,
                  organization |->
                      [monthly_budget |-> numberOr(orgBudget.orgBudget, "unlimited"),
                       org_spent |-> ToString(orgBudget.orgSpent),
                       org_remaining |-> numberOr(orgBudget.orgRemaining, "unlimited"),
                       percent_used |->
                           IF orgBudget.percentUsed # Undefined
                           THEN percentFixed1(orgBudget.percentUsed[1][1],
                                              orgBudget.percentUsed[1][2]) \o "%"
                           ELSE "undefined%"]])

RECURSIVE Reversed(_)
\* The sequence from its last element to its first.
Reversed(s) == IF s = <<>> THEN <<>> ELSE <<s[Len(s)]>> \o Reversed(SubSeq(s, 1, Len(s) - 1))

RECURSIVE Filtered(_, _, _)
\* Array.prototype.filter on agentId and, when given, on status
Filtered(s, agentId, status) ==
    IF s = <<>> THEN <<>>
    ELSE (IF s[1].agentId = agentId /\ (status = Undefined \/ s[1].status = status[1])
          THEN <<s[1]>> ELSE <<>>)
         \o Filtered(Tail(s), agentId, status)

\* InMemoryStorageProvider.listPurchaseIntents: the agent's intents, newest
\* first (creation times differ), cut to the limit
listPurchaseIntents(agentId, status, limit) ==
    LET results == Reversed(Filtered(purchaseIntents, agentId, status))
    IN  SubSeq(results, 1, IF Len(results) < limit THEN Len(results) ELSE limit)

\* handleListTransactions; `limit` is the given limit, 0 when none is given;
\* `statusFilter` is `args.status || "all"`.  Creation times are not kept,
\* so the timestamp member is left out
handleListTransactions(limit, statusFilter, agentId) ==
    LET effective == IF limit = 0 THEN 10 ELSE IF limit > 50 THEN 50
                     ELSE IF limit < 1 THEN 1 ELSE limit
        transactions ==
            listPurchaseIntents(agentId,
                                IF statusFilter = "all" THEN Undefined
                                ELSE Some(statusFilter),
                                effective)
    IN  jsonResult([agent_id |-> agentId,
                    count |-> ToString(Len(transactions)),
                    transactions |->
                        [k \in 1..Len(transactions) |->
                            [id |-> transactions[k].id,
                             amount |-> ToString(transactions[k].amount),
                             currency |-> transactions[k].currency,
                             description |-> transactions[k].description,
                             merchant |-> transactions[k].merchantName,
                             status |-> transactions[k].status,
                             rejection_reason |->
                                 IF transactions[k].rejectionCode # Undefined
                                 THEN Some([code |-> transactions[k].rejectionCode[1],
                                            message |-> transactions[k].rejectionReason[1]])
                                 ELSE Undefined]]])

\* getSummary: the parts, which the handler joins with ", "
getSummary(agent) ==
    LET parts ==
            (IF TruthyNum(agent.monthlyLimit)
             THEN <<"You have a monthly budget of $" \o ToString(agent.monthlyLimit[1])>>
             ELSE <<>>)
            \o (IF TruthyNum(agent.perTransactionLimit)
                THEN <<"max $" \o ToString(agent.perTransactionLimit[1])
                           \o " per transaction">>
                ELSE <<>>)
            \o (IF TruthyNum(agent.approvalThreshold)
                THEN <<"purchases over $" \o ToString(agent.approvalThreshold[1])
                           \o " need approval">>
                ELSE <<>>)
            \o (IF agent.flagNewVendors THEN <<"new vendors require approval">>
                ELSE <<>>)
    IN  IF Len(parts) = 0
        THEN <<"No specific limits set. Organization guardrails still apply.">>
        ELSE parts

\* getPolicyInfo with the agent's spend of the day in its output.
handleGetPolicyInfoWithSpend(agentId, organizationId) ==
    IF getAgent(agentId) = Undefined THEN textResult("Error: Agent not found")
    ELSE jsonResult([agent_id |-> agentId,
                     spent_today |-> ToString(getAgentSpend(agentId, "daily")),
                     summary |-> getSummary(getAgent(agentId)[1])])

\* handleGetPolicyInfo
handleGetPolicyInfo(agentId, organizationId) ==
    IF getAgent(agentId) = Undefined THEN textResult("Error: Agent not found")
    ELSE
    LET agent == getAgent(agentId)[1]
        org == getOrganization(organizationId)
        guardrails == IF org = Undefined THEN NoGuardrails ELSE GuardrailsOf(org[1])
    IN  jsonResult(
            [agent_id |-> agentId,
             agent_controls |->
                 [spending_limits |->
                      [per_transaction |-> numberOr(agent.perTransactionLimit, "unlimited"),
                       daily |-> numberOr(agent.dailyLimit, "unlimited"),
                       monthly |-> numberOr(agent.monthlyLimit, "unlimited")],
                  approval_rules |->
                      [threshold |->
                           IF TruthyNum(agent.approvalThreshold)
                           THEN "Purchases over $" \o ToString(agent.approvalThreshold[1])
                                    \o " require human approval"
                           ELSE "No approval threshold",
                       new_vendors |->
                           IF agent.flagNewVendors
                           THEN "Purchases from new vendors require human approval"
                           ELSE "New vendor purchases allowed"],
                  merchant_restrictions |->
                      [blocked |-> listOr(agent.blockedMerchants, "none"),
                       allowed_only |-> listOr(agent.allowedMerchants, "any merchant")]],
             organization_guardrails |->
                 [monthly_budget |->
                      IF org = Undefined THEN "unlimited"
                      ELSE numberOr(org[1].monthlyBudget, "unlimited"),
                  max_transaction |-> numberOr(guardrails.maxTransactionAmount, "unlimited"),
                  require_approval_above |->
                      numberOr(guardrails.requireApprovalAbove, "none"),
                  flag_all_new_vendors |-> guardrails.flagAllNewVendors,
                  blocked_categories |-> listOr(guardrails.blockCategories, "none")],
             summary |-> getSummary(agent)])

\* tools/call check_budget
CheckBudget(period, agentId, organizationId) ==
    /\ last' = [op |-> "check_budget", agentId |-> agentId,
                organizationId |-> organizationId, period |-> period,
                result |-> handleCheckBudget(period, agentId, organizationId)]
    /\ UNCHANGED <<agents, organizations, tools, spendTracking, merchants, purchaseIntents,
                   pendingApprovals, cards>>

\* tools/call list_transactions
ListTransactions(limit, statusFilter, agentId) ==
    /\ last' = [op |-> "list_transactions", agentId |-> agentId, limit |-> limit,
                statusFilter |-> statusFilter,
                result |-> handleListTransactions(limit, statusFilter, agentId)]
    /\ UNCHANGED <<agents, organizations, tools, spendTracking, merchants, purchaseIntents,
                   pendingApprovals, cards>>

\* tools/call get_policy_info
GetPolicyInfo(agentId, organizationId) ==
    /\ last' = [op |-> "get_policy_info", agentId |-> agentId,
                organizationId |-> organizationId,
                result |-> handleGetPolicyInfo(agentId, organizationId)]
    /\ UNCHANGED <<agents, organizations, tools, spendTracking, merchants, purchaseIntents,
                   pendingApprovals, cards>>

Periods == {"all", "daily", "monthly"}

ListLimits == {0, 1}

StatusFilters == {"all", "approved"}

ToolsPurchase ==
    /\ \E a \in RouterAmounts :
          handleRequestPurchase([amount |-> Num(a), currency |-> Str("usd"),
                                 description |-> Str("d"),
                                 merchant_name |-> Str(<<"B">>)], "a1", "o1")
    /\ UNCHANGED inflight

ToolsCheckBudget ==
    /\ \E period \in Periods : \E organizationId \in OrgIds :
          CheckBudget(period, "a1", organizationId)
    /\ UNCHANGED inflight

ToolsListTransactions ==
    /\ \E limit \in ListLimits : \E statusFilter \in StatusFilters :
          ListTransactions(limit, statusFilter, "a1")
    /\ UNCHANGED inflight

ToolsGetPolicyInfo ==
    /\ \E organizationId \in OrgIds : GetPolicyInfo("a1", organizationId)
    /\ UNCHANGED inflight

InitTools == Init

NextTools ==
    ToolsPurchase \/ ToolsCheckBudget \/ ToolsListTransactions \/ ToolsGetPolicyInfo

SpecTools == InitTools /\ [][NextTools]_vars

(***************************************************************************)
(* SpecRouter: RoonyMCPServer.handleRequest on every method and tool name, *)
(* one request at a time.  The response is kept under the request's id in  *)
(* `inflight`; `last` is written by the tool handlers only.                *)
(***************************************************************************)
InvalidParams == "InvalidParams"

MethodNotFound == "MethodNotFound"

RoonyToolNames == {"request_purchase", "check_budget", "list_transactions",
                   "get_policy_info"}

\* `params.arguments || {}`: the bag in which every argument is undefined
NoArguments ==
    [amount |-> NoValue, currency |-> Value("undefined", ""),
     description |-> Value("undefined", ""),
     merchant_name |-> Value("undefined", <<>>)]

\* The request is answered with the response; no handler runs.
Answer(request, response) ==
    /\ inflight' = [NoneInFlight EXCEPT ![request.id] =
                       [pc |-> "answered", request |-> request,
                        response |-> Some(response)]]
    /\ UNCHANGED <<agents, organizations, tools, spendTracking, merchants, purchaseIntents,
                   pendingApprovals, cards, last>>

\* The request is answered with the result the tool handler returned.
AnswerWithToolResult(request) ==
    inflight' = [NoneInFlight EXCEPT ![request.id] =
                    [pc |-> "answered", request |-> request,
                     response |-> Some(resultResponse(request.id, last'))]]

\* missingName taking an empty name for a name.
missingNameUnlessEmpty(params) ==
    params = Undefined \/ params[1].name = Undefined

\* `!params?.name`
missingName(params) ==
    params = Undefined \/ params[1].name = Undefined \/ params[1].name[1] = ""

\* RoonyMCPServer.handleToolsCall, with the arguments the read tools default to
handleToolsCall(request, agentId, organizationId) ==
    IF missingName(request.params)
    THEN Answer(request, errorResponse(request.id, InvalidParams, "Missing tool name"))
    ELSE
    LET toolName == request.params[1].name[1]
        toolArgs == IF request.params[1].arguments = Undefined THEN NoArguments
                    ELSE request.params[1].arguments[1]
    IN  CASE toolName = "request_purchase" ->
                 /\ handleRequestPurchase(toolArgs, agentId, organizationId)
                 /\ AnswerWithToolResult(request)
          [] toolName = "check_budget" ->
                 /\ CheckBudget("all", agentId, organizationId)
                 /\ AnswerWithToolResult(request)
          [] toolName = "list_transactions" ->
                 /\ ListTransactions(0, "all", agentId)
                 /\ AnswerWithToolResult(request)
          [] toolName = "get_policy_info" ->
                 /\ GetPolicyInfo(agentId, organizationId)
                 /\ AnswerWithToolResult(request)
          [] OTHER ->
                 Answer(request, errorResponse(request.id, MethodNotFound,
                                               "Unknown tool: " \o toolName))

\* RoonyMCPServer.handleRequest
handleRequest(request, agentId, organizationId) ==
    CASE request.method = "initialize" ->
             Answer(request, resultResponse(request.id, [serverInfo |-> "roony-governance"]))
      [] request.method = "initialized" ->
             Answer(request, resultResponse(request.id, [empty |-> TRUE]))
      [] request.method = "tools/list" ->
             Answer(request, resultResponse(request.id, [tools |-> RoonyToolNames]))
      [] request.method = "tools/call" ->
             handleToolsCall(request, agentId, organizationId)
      [] request.method = "resources/list" ->
             Answer(request, resultResponse(request.id, [resources |-> <<>>]))
      [] request.method = "prompts/list" ->
             Answer(request, resultResponse(request.id, [prompts |-> <<>>]))
      [] OTHER ->
             Answer(request, errorResponse(request.id, MethodNotFound,
                                           "Method not found: " \o request.method))

\* The methods this server answers, and a method of the protocol it does not.
Methods ==
    {"initialize", "initialized", "tools/list", "tools/call", "resources/list",
     "prompts/list", "resources/read"}

\* Tool names: the four tools, the empty name, and names of no tool.
ToolNames == RoonyToolNames \cup {"", "approve_purchase", "Request_Purchase"}

\* params of tools/call: absent, without a name, or naming a tool without
\* arguments; request_purchase also with a complete argument bag
ToolCallParams ==
    {Undefined, Some([name |-> Undefined, arguments |-> Undefined])}
    \cup { Some([name |-> Some(t), arguments |-> Undefined]) : t \in ToolNames }
    \cup { Some([name |-> Some("request_purchase"),
                 arguments |-> Some([amount |-> Num(1), currency |-> Str("usd"),
                                     description |-> Str("d"),
                                     merchant_name |-> Str(<<"B">>)])]) }

MCPRequests ==
    { [id |-> id, method |-> method, params |-> Undefined] :
          id \in RequestIds, method \in Methods }
    \cup { [id |-> id, method |-> "tools/call", params |-> params] :
               id \in RequestIds, params \in ToolCallParams }

HandleAnyRequest == \E request \in MCPRequests : handleRequest(request, "a1", "o1")

InitRouter == Init

NextRouter == HandleAnyRequest

SpecRouter == InitRouter /\ [][NextRouter]_vars

(***************************************************************************)
(* SpecWorkflow: purchases of agent a1 through the router, and the         *)
(* approval workflow outside it, which moves stored intents to another     *)
(* status with updatePurchaseIntent.  The agent has a limit together with  *)
(* an approval threshold, so that requests below the limit go to approval. *)
(***************************************************************************)
\* updatePurchaseIntent: `{ ...existing, ...updates }` for an id that exists
updatePurchaseIntent(intents, id, updates) ==
    IF id \in 1..Len(intents)
    THEN [intents EXCEPT ![id] =
             [@ EXCEPT !.status = IF updates.status # Undefined
                                  THEN updates.status[1] ELSE @]]
    ELSE intents

\* spendAfterUpdate tracking the amount of an intent that becomes approved.
spendAfterUpdateTrackingApproval(id, updates) ==
    IF id \in 1..Len(purchaseIntents) /\ updates.status = Some("approved")
    THEN trackSpend(spendTracking, purchaseIntents[id].agentId,
                    purchaseIntents[id].organizationId, purchaseIntents[id].amount)
    ELSE spendTracking

\* updatePurchaseIntent does not call trackSpend
spendAfterUpdate(id, updates) == spendTracking

UpdatePurchaseIntent(id, updates) ==
    /\ purchaseIntents' = updatePurchaseIntent(purchaseIntents, id, updates)
    /\ spendTracking' = spendAfterUpdate(id, updates)
    /\ UNCHANGED <<agents, organizations, tools, merchants, pendingApprovals, cards,
                   inflight, last>>

\* The statuses the workflow moves an intent to.
WorkflowStatuses == {"approved", "rejected", "expired"}

WorkflowAgentPolicies ==
    { [NoAgentPolicy EXCEPT !.dailyLimit = Some(MaxLimit),
                            !.approvalThreshold = Some(1)],
      [NoAgentPolicy EXCEPT !.monthlyLimit = Some(MaxLimit)],
      NoAgentPolicy }

InitWorkflow ==
    /\ \E p \in WorkflowAgentPolicies :
          agents = [a \in AgentIds |->
                       IF a = "a1" THEN Some(MkAgent(a, "o1", p)) ELSE Undefined]
    /\ organizations =
          [x \in OrgIds |->
              IF x = "o1"
              THEN Some(MkOrg("o1", [monthlyBudget |-> Some(MaxLimit),
                                     guardrails |-> Undefined]))
              ELSE Undefined]
    /\ spendTracking = [k \in SpendKeys |-> NoSpend]
    /\ merchants = [x \in OrgIds |-> {}]
    /\ purchaseIntents = <<>>
    /\ pendingApprovals = <<>>
    /\ cards = <<>>
    /\ inflight = NoneInFlight
    /\ tools = NoTools
    /\ last = [op |-> "none"]

WorkflowPurchase ==
    /\ \E a \in RouterAmounts :
          handleRequestPurchase([amount |-> Num(a), currency |-> Str("usd"),
                                 description |-> Str("d"),
                                 merchant_name |-> Str(<<"B">>)], "a1", "o1")
    /\ UNCHANGED inflight

WorkflowUpdate ==
    \E id \in 1..(MaxRequests + 1) : \E status \in WorkflowStatuses :
        UpdatePurchaseIntent(id, [status |-> Some(status)])

NextWorkflow == WorkflowPurchase \/ WorkflowUpdate

SpecWorkflow == InitWorkflow /\ [][NextWorkflow]_vars

(***************************************************************************)
(* SpecReason: purchases of agent a1 for merchants whose names contain the *)
(* words the handler searches the approval reason for.  A name is a        *)
(* sequence of pieces of text; "threshold" and "vendor" are pieces.        *)
(***************************************************************************)
ReasonMerchants == { <<"B">>, <<"B", "threshold">>, <<"vendor", "A">> }

InitReason == Init

ReasonPurchase ==
    /\ \E a \in RouterAmounts : \E m \in ReasonMerchants :
          handleRequestPurchase([amount |-> Num(a), currency |-> Str("usd"),
                                 description |-> Str("d"),
                                 merchant_name |-> Str(m)], "a1", "o1")
    /\ UNCHANGED inflight

NextReason == ReasonPurchase

SpecReason == InitReason /\ [][NextReason]_vars

(***************************************************************************)
(* SpecStatus: purchases of agent a1 in any currency and with any          *)
(* description, while an administrator stores the agent again with another *)
(* lifecycle status.                                                       *)
(***************************************************************************)
AgentStatuses == {"active", "paused", "suspended"}

Currencies == {"usd", "eur"}

Descriptions == {"d", "e"}

\* addAgent for an agent that exists, with another status and nothing else changed
SetAgentStatus(agentId, status) ==
    /\ agents[agentId] # Undefined
    /\ agents' = [agents EXCEPT ![agentId] = Some([@[1] EXCEPT !.status = status])]
    /\ UNCHANGED <<organizations, tools, spendTracking, merchants, purchaseIntents,
                   pendingApprovals, cards, inflight, last>>

InitStatus == Init

StatusPurchase ==
    /\ \E a \in RouterAmounts : \E c \in Currencies : \E d \in Descriptions :
          handleRequestPurchase([amount |-> Num(a), currency |-> Str(c),
                                 description |-> Str(d),
                                 merchant_name |-> Str(<<"B">>)], "a1", "o1")
    /\ UNCHANGED inflight

StatusChange == \E status \in AgentStatuses : SetAgentStatus("a1", status)

NextStatus == StatusPurchase \/ StatusChange

SpecStatus == InitStatus /\ [][NextStatus]_vars

(***************************************************************************)
(* SpecServer: the generic MCPServer.  Tools are added and removed at run  *)
(* time; resources and prompts are those of the configuration.  A handler  *)
(* and the context factory are code of the embedding application: each     *)
(* either returns, throws an Error with a message, or throws another       *)
(* value.                                                                  *)
(***************************************************************************)
\* What a callback does when it is invoked: `message` is the message of the
\* Error it throws, absent when it throws a value that is no Error.
CallbackReturns == [throws |-> FALSE, message |-> Undefined]
CallbackOutcomes ==
    {CallbackReturns,
     [throws |-> TRUE, message |-> Some("boom")],
     [throws |-> TRUE, message |-> Undefined]}

\* `error instanceof Error ? error.message : fallback`
messageOr(error, fallback) ==
    IF error.message # Undefined THEN error.message[1] ELSE fallback

\* errorResult(message)
errorResult(message) == textResult("Error: " \o message)

\* The value a handler returns when it does not throw.
handlerResult == [isError |-> FALSE, text |-> "ok"]

\* MCPServer.createSuccessResponse
createSuccessResponse(id, result) ==
    [jsonrpc |-> "2.0", id |-> id, result |-> Some(result), error |-> Undefined]

\* MCPServer.createErrorResponse
createErrorResponse(id, code, message) ==
    [jsonrpc |-> "2.0", id |-> id, result |-> Undefined,
     error |-> Some([code |-> code, message |-> message])]

\* A method of the server returns a response, or an exception leaves it.
Returned(response) == [thrown |-> FALSE, response |-> response]
Thrown(error) == [thrown |-> TRUE, error |-> error]

\* MCPServer.resources and MCPServer.prompts, indexed from the configuration.
resources ==
    [uri \in {"res://a", "res://b", "res://c"} |->
        IF uri = "res://a" THEN CallbackReturns
        ELSE [throws |-> TRUE,
              message |-> IF uri = "res://b" THEN Some("boom") ELSE Undefined]]
prompts ==
    [name \in {"p", "q", "s"} |->
        IF name = "p" THEN CallbackReturns
        ELSE [throws |-> TRUE,
              message |-> IF name = "q" THEN Some("boom") ELSE Undefined]]

\* Map.get
mapGet(map, key) == IF key \in DOMAIN map THEN Some(map[key]) ELSE Undefined

\* this.tools.get(name)
toolsGet(registry, name) == IF name \in DOMAIN registry THEN registry[name] ELSE Undefined

\* `!params?.uri`
missingUri(params) ==
    params = Undefined \/ params[1].uri = Undefined \/ params[1].uri[1] = ""

\* handleToolsCall with the handler's exception leaving the method.
MCPServerHandleToolsCallRethrowing(request, context) ==
    IF missingName(request.params)
    THEN Returned(createErrorResponse(request.id, InvalidParams, "Missing tool name"))
    ELSE LET name == request.params[1].name[1]
             tool == toolsGet(tools, name)
         IN  IF tool = Undefined
             THEN Returned(createErrorResponse(request.id, MethodNotFound,
                                               "Unknown tool: " \o name))
             ELSE IF context.throws THEN Thrown(context)
             ELSE IF tool[1].throws THEN Thrown(tool[1])
             ELSE Returned(createSuccessResponse(request.id, handlerResult))

\* MCPServer.handleToolsCall: the context is created before the try block
MCPServerHandleToolsCall(request, context) ==
    IF missingName(request.params)
    THEN Returned(createErrorResponse(request.id, InvalidParams, "Missing tool name"))
    ELSE LET name == request.params[1].name[1]
             tool == toolsGet(tools, name)
         IN  IF tool = Undefined
             THEN Returned(createErrorResponse(request.id, MethodNotFound,
                                               "Unknown tool: " \o name))
             ELSE IF context.throws THEN Thrown(context)
             ELSE Returned(createSuccessResponse(request.id,
                      IF tool[1].throws
                      THEN errorResult(messageOr(tool[1], "Tool execution failed"))
                      ELSE handlerResult))

\* MCPServer.handleResourcesRead
MCPServerHandleResourcesRead(request, context) ==
    IF missingUri(request.params)
    THEN Returned(createErrorResponse(request.id, InvalidParams, "Missing resource URI"))
    ELSE LET uri == request.params[1].uri[1]
             resource == mapGet(resources, uri)
         IN  IF resource = Undefined
             THEN Returned(createErrorResponse(request.id, InvalidParams,
                                               "Unknown resource: " \o uri))
             ELSE IF context.throws THEN Thrown(context)
             ELSE IF resource[1].throws
             THEN Returned(createErrorResponse(request.id, InternalError,
                               messageOr(resource[1], "Resource read failed")))
             ELSE Returned(createSuccessResponse(request.id,
                                                 [contents |-> <<handlerResult>>]))

\* MCPServer.handlePromptsGet
MCPServerHandlePromptsGet(request, context) ==
    IF missingName(request.params)
    THEN Returned(createErrorResponse(request.id, InvalidParams, "Missing prompt name"))
    ELSE LET name == request.params[1].name[1]
             prompt == mapGet(prompts, name)
         IN  IF prompt = Undefined
             THEN Returned(createErrorResponse(request.id, InvalidParams,
                                               "Unknown prompt: " \o name))
             ELSE IF context.throws THEN Thrown(context)
             ELSE IF prompt[1].throws
             THEN Returned(createErrorResponse(request.id, InternalError,
                               messageOr(prompt[1], "Prompt get failed")))
             ELSE Returned(createSuccessResponse(request.id,
                                                 [messages |-> <<handlerResult>>]))

RegisteredNames(registry) == { n \in DOMAIN registry : registry[n] # Undefined }

\* MCPServer.routeRequest
MCPServerRouteRequest(request, context) ==
    CASE request.method \in {"initialized", "ping"} ->
             Returned(createSuccessResponse(request.id, [x \in {} |-> x]))
      [] request.method = "initialize" ->
             Returned(createSuccessResponse(request.id,
                 [tools |-> RegisteredNames(tools) # {}, resources |-> TRUE,
                  prompts |-> TRUE]))
      [] request.method = "tools/list" ->
             Returned(createSuccessResponse(request.id,
                                            [tools |-> RegisteredNames(tools)]))
      [] request.method = "tools/call" -> MCPServerHandleToolsCall(request, context)
      [] request.method = "resources/list" ->
             Returned(createSuccessResponse(request.id,
                                            [resources |-> DOMAIN resources]))
      [] request.method = "resources/read" ->
             MCPServerHandleResourcesRead(request, context)
      [] request.method = "prompts/list" ->
             Returned(createSuccessResponse(request.id, [prompts |-> DOMAIN prompts]))
      [] request.method = "prompts/get" -> MCPServerHandlePromptsGet(request, context)
      [] OTHER ->
             Returned(createErrorResponse(request.id, MethodNotFound,
                                          "Method not found: " \o request.method))

\* MCPServer.handleRequest on a request that parses: the response for `request`
\* when the context factory behaves as `context`
MCPServerHandleRequest(request, context) ==
    LET routed == MCPServerRouteRequest(request, context)
    IN  IF routed.thrown
        THEN createErrorResponse(request.id, InternalError,
                                 messageOr(routed.error, "Internal server error"))
        ELSE routed.response

\* MCPServer.addTool
addTool(name, handler) ==
    /\ tools' = [tools EXCEPT ![name] = Some(handler)]
    /\ last' = [op |-> "addTool", name |-> name]
    /\ UNCHANGED <<agents, organizations, spendTracking, merchants, purchaseIntents,
                   pendingApprovals, cards, inflight>>

\* MCPServer.removeTool
removeTool(name) ==
    /\ tools' = [tools EXCEPT ![name] = Undefined]
    /\ last' = [op |-> "removeTool", name |-> name,
                returned |-> tools[name] # Undefined]
    /\ UNCHANGED <<agents, organizations, spendTracking, merchants, purchaseIntents,
                   pendingApprovals, cards, inflight>>

\* The names and URIs requests carry: registered ones, the empty one, unknown ones.
ServerRequestNames == ServerToolNames \cup {"p", "q", "s", "never"}
ServerRequestUris == DOMAIN resources \cup {"", "res://none"}

ServerParams ==
    {Undefined, Some([name |-> Undefined, uri |-> Undefined])}
    \cup { Some([name |-> Some(n), uri |-> Undefined]) : n \in ServerRequestNames }
    \cup { Some([name |-> Undefined, uri |-> Some(u)]) : u \in ServerRequestUris }

ServerMethods ==
    {"initialize", "initialized", "ping", "tools/list", "tools/call",
     "resources/list", "resources/read", "prompts/list", "prompts/get",
     "tools/remove"}

ServerRequests ==
    { [id |-> "r1", method |-> method, params |-> Undefined] : method \in ServerMethods }
    \cup { [id |-> "r1", method |-> method, params |-> params] :
               method \in {"tools/call", "resources/read", "prompts/get"},
               params \in ServerParams }

ServerHandleRequest ==
    \E request \in ServerRequests : \E context \in CallbackOutcomes :
        /\ last' = [op |-> "MCPServer.handleRequest", request |-> request,
                    context |-> context,
                    response |-> MCPServerHandleRequest(request, context)]
        /\ UNCHANGED <<agents, organizations, spendTracking, merchants,
                       purchaseIntents, pendingApprovals, cards, inflight, tools>>

ServerAddTool ==
    \E name \in ServerToolNames : \E handler \in CallbackOutcomes : addTool(name, handler)

ServerRemoveTool == \E name \in ServerToolNames : removeTool(name)

InitServer ==
    /\ agents = [a \in AgentIds |-> Undefined]
    /\ organizations = [x \in OrgIds |-> Undefined]
    /\ spendTracking = [k \in SpendKeys |-> NoSpend]
    /\ merchants = [x \in OrgIds |-> {}]
    /\ purchaseIntents = << >>
    /\ pendingApprovals = << >>
    /\ cards = << >>
    /\ inflight = NoneInFlight
    /\ tools = NoTools
    /\ last = [op |-> "none"]

NextServer == ServerHandleRequest \/ ServerAddTool \/ ServerRemoveTool

SpecServer == InitServer /\ [][NextServer]_vars

(***************************************************************************)
(* The vocabulary of the properties: the rule conditions as the            *)
(* specification words them, read off the storage state and the request    *)
(* of the last evaluation.  "Set" means present, whatever the value.       *)
(***************************************************************************)
Ev == last.op = "checkSpending"
EvReq == last.request
EvRes == last.result

EvAgentFound == agents[EvReq.agentId] # Undefined
EvAgent == agents[EvReq.agentId][1]
EvOrgFound == EvAgentFound /\ organizations[EvAgent.organizationId] # Undefined
EvOrg == organizations[EvAgent.organizationId][1]
EvGuard == GuardrailsOf(EvOrg)

EvDailySpend == spendTracking[EvAgent.id].daily
EvMonthlySpend == spendTracking[EvAgent.id].monthly
EvOrgMonthlySpend == spendTracking["org:" \o EvOrg.id].monthly

Over(limit, x) == limit # Undefined /\ x > limit[1]

LowerCased(name) ==
    [i \in 1..Len(name) |->
        IF name[i] = "A" THEN "a" ELSE IF name[i] = "B" THEN "b" ELSE name[i]]

\* The lower-cased name contains the lower-cased entry.
NameContains(name, entry) ==
    \E i \in 1..Len(name) : \E j \in i..Len(name) :
        SubSeq(LowerCased(name), i, j) = LowerCased(entry)

ListMatches(name, list) ==
    list # Undefined /\ \E k \in 1..Len(list[1]) : NameContains(name, list[1][k])

Cond3 == Over(EvAgent.perTransactionLimit, EvReq.amount)
Cond4 == Over(EvGuard.maxTransactionAmount, EvReq.amount)
Cond5 == Over(EvAgent.dailyLimit, EvDailySpend + EvReq.amount)
Cond6 == Over(EvAgent.monthlyLimit, EvMonthlySpend + EvReq.amount)
Cond7 == Over(EvOrg.monthlyBudget, EvOrgMonthlySpend + EvReq.amount)
Cond8 == ListMatches(EvReq.merchantName, EvAgent.blockedMerchants)
Cond9 == /\ EvAgent.allowedMerchants # Undefined
         /\ Len(EvAgent.allowedMerchants[1]) > 0
         /\ ~ListMatches(EvReq.merchantName, EvAgent.allowedMerchants)
Cond10 == ListMatches(EvReq.merchantName, EvGuard.blockCategories)

\* The code of the first of the numeric rules 3 to 7 whose condition holds.
FirstLimitCode ==
    IF Cond3 THEN "OVER_TRANSACTION_LIMIT"
    ELSE IF Cond4 THEN "OVER_ORG_MAX_TRANSACTION"
    ELSE IF Cond5 THEN "DAILY_LIMIT_EXCEEDED"
    ELSE IF Cond6 THEN "MONTHLY_LIMIT_EXCEEDED"
    ELSE IF Cond7 THEN "ORG_BUDGET_EXCEEDED"
    ELSE "NONE"

\* The code of the first of the merchant rules 8 to 10 whose condition holds.
FirstMerchantCode ==
    IF Cond8 THEN "MERCHANT_BLOCKED"
    ELSE IF Cond9 THEN "MERCHANT_NOT_ALLOWED"
    ELSE IF Cond10 THEN "CATEGORY_BLOCKED"
    ELSE "NONE"

\* The code of the first of the rules 1 to 10 whose condition holds.
FirstRuleCode ==
    IF ~EvAgentFound THEN "AGENT_NOT_FOUND"
    ELSE IF ~EvOrgFound THEN "AGENT_NOT_FOUND"
    ELSE IF FirstLimitCode # "NONE" THEN FirstLimitCode
    ELSE FirstMerchantCode

Positive(limit) == limit # Undefined => limit[1] > 0

PositiveLimits ==
    EvOrgFound =>
        /\ Positive(EvAgent.perTransactionLimit)
        /\ Positive(EvGuard.maxTransactionAmount)
        /\ Positive(EvAgent.dailyLimit)
        /\ Positive(EvAgent.monthlyLimit)
        /\ Positive(EvOrg.monthlyBudget)

PositiveThresholds ==
    EvOrgFound =>
        /\ Positive(EvAgent.approvalThreshold)
        /\ Positive(EvGuard.requireApprovalAbove)

LimitCodes ==
    {"OVER_TRANSACTION_LIMIT", "OVER_ORG_MAX_TRANSACTION", "DAILY_LIMIT_EXCEEDED",
     "MONTHLY_LIMIT_EXCEEDED", "ORG_BUDGET_EXCEEDED"}

Rejected(res, code) == ~res.allowed /\ res.rejectionCode = <<code>>

HasFragment(text, fragment) == \E i \in 1..Len(text) : text[i] = fragment

\* Which approval condition a verdict reports.
ReasonKind(res) ==
    IF ~res.requiresApproval \/ res.approvalReason = Undefined THEN "none"
    ELSE IF HasFragment(res.approvalReason[1], " exceeds approval ") THEN "agent threshold"
    ELSE IF HasFragment(res.approvalReason[1], " exceeds organization approval ")
    THEN "org threshold"
    ELSE IF HasFragment(res.approvalReason[1], " (org policy)") THEN "org new vendor"
    ELSE IF HasFragment(res.approvalReason[1], "vendor") THEN "agent new vendor"
    ELSE "other"

EvMerchantIsNew == LowerCased(EvReq.merchantName) \notin merchants[EvOrg.id]

Appr11 == Over(EvAgent.approvalThreshold, EvReq.amount)
Appr12 == Over(EvGuard.requireApprovalAbove, EvReq.amount)
Appr13 == EvAgent.flagNewVendors /\ EvMerchantIsNew
Appr14 == EvGuard.flagAllNewVendors /\ EvMerchantIsNew

\* The first of the approval conditions 11 to 14 that holds.
FirstApprovalKind ==
    IF Appr11 THEN "agent threshold"
    ELSE IF Appr12 THEN "org threshold"
    ELSE IF Appr13 THEN "agent new vendor"
    ELSE IF Appr14 THEN "org new vendor"
    ELSE "none"

(***************************************************************************)
(* Properties of the evaluator (SpecEval).                                 *)
(***************************************************************************)
\* C1: with every configured hard limit positive, checkSpending rejects with the
\* code of the first of the rules 1 to 10 whose condition holds, and allows the
\* request exactly when none holds.
C1_FirstFailingRuleDecides ==
    (Ev /\ PositiveLimits) =>
        IF FirstRuleCode = "NONE" THEN EvRes.allowed
        ELSE Rejected(EvRes, FirstRuleCode)

\* C1 witness: the daily and the monthly rule both hold, and the verdict carries
\* the daily code.
C1_Witness ==
    /\ Ev /\ EvOrgFound /\ PositiveLimits
    /\ ~Cond3 /\ ~Cond4 /\ Cond5 /\ Cond6
    /\ Rejected(EvRes, "DAILY_LIMIT_EXCEEDED")

\* C2: whenever the condition of one of the rejection rules 1 to 10 holds, the
\* verdict is allowed = false, whatever the approval settings are.
C2_RejectionBeatsApproval ==
    (Ev /\ FirstRuleCode # "NONE") => ~EvRes.allowed

\* C4: limits are inclusive.  An amount (or spend plus amount) equal to a positive
\* limit does not trigger that limit's rule, and a strictly greater one triggers it
\* unless an earlier rule rejected; likewise for the two approval thresholds.
C4_InclusiveBoundaries ==
    (Ev /\ EvOrgFound /\ PositiveLimits /\ PositiveThresholds) =>
        /\ EvAgent.perTransactionLimit = <<EvReq.amount>>
              => ~Rejected(EvRes, "OVER_TRANSACTION_LIMIT")
        /\ EvGuard.maxTransactionAmount = <<EvReq.amount>>
              => ~Rejected(EvRes, "OVER_ORG_MAX_TRANSACTION")
        /\ EvAgent.dailyLimit = <<EvDailySpend + EvReq.amount>>
              => ~Rejected(EvRes, "DAILY_LIMIT_EXCEEDED")
        /\ EvAgent.monthlyLimit = <<EvMonthlySpend + EvReq.amount>>
              => ~Rejected(EvRes, "MONTHLY_LIMIT_EXCEEDED")
        /\ EvOrg.monthlyBudget = <<EvOrgMonthlySpend + EvReq.amount>>
              => ~Rejected(EvRes, "ORG_BUDGET_EXCEEDED")
        /\ EvAgent.approvalThreshold = <<EvReq.amount>>
              => ReasonKind(EvRes) # "agent threshold"
        /\ EvGuard.requireApprovalAbove = <<EvReq.amount>>
              => ReasonKind(EvRes) # "org threshold"
        /\ FirstLimitCode # "NONE" => Rejected(EvRes, FirstLimitCode)
        /\ (EvRes.allowed /\ Appr11) => ReasonKind(EvRes) = "agent threshold"
        /\ (EvRes.allowed /\ ~Appr11 /\ Appr12) => ReasonKind(EvRes) = "org threshold"

\* C4 witness: the amount equals the per-transaction limit, spend plus amount
\* equals the daily limit, and the request is approved outright.
C4_Witness ==
    /\ Ev /\ EvOrgFound /\ PositiveLimits /\ PositiveThresholds
    /\ EvAgent.perTransactionLimit = <<EvReq.amount>>
    /\ EvAgent.dailyLimit = <<EvDailySpend + EvReq.amount>>
    /\ EvDailySpend > 0
    /\ EvRes.allowed /\ ~EvRes.requiresApproval

\* C5: a hard limit that is set, to any value including 0, rejects every request
\* that exceeds it and that no earlier rule rejected.
C5_SetLimitIsEnforced ==
    (Ev /\ EvOrgFound /\ FirstLimitCode # "NONE") => Rejected(EvRes, FirstLimitCode)

\* C6: an approval threshold that is set, to any value including 0, sends every
\* request above it to approval when no rejection rule fires.
C6_SetThresholdIsEnforced ==
    (Ev /\ EvOrgFound /\ FirstRuleCode = "NONE" /\ (Appr11 \/ Appr12))
        => EvRes.requiresApproval

\* C7: when the verdict is no rejection and the thresholds are positive, the
\* verdict reports the first approval condition that holds, in the order agent
\* threshold, organization threshold, agent new vendor, organization new vendor,
\* and requires no approval when none holds.
C7_FirstApprovalReasonReported ==
    (Ev /\ EvOrgFound /\ EvRes.allowed /\ PositiveThresholds) =>
        /\ ReasonKind(EvRes) = FirstApprovalKind
        /\ EvRes.requiresApproval <=> FirstApprovalKind # "none"

\* C7 witness: both thresholds are exceeded and the agent's is the one reported.
C7_Witness ==
    /\ Ev /\ EvOrgFound /\ EvRes.allowed /\ PositiveThresholds
    /\ Appr11 /\ Appr12
    /\ ReasonKind(EvRes) = "agent threshold"

\* C8: on every evaluation that reaches the merchant rules, a list entry matches
\* exactly when the lower-cased merchant name contains the lower-cased entry; an
\* absent or empty allow list restricts nothing; a merchant on both the block list
\* and the allow list is rejected MERCHANT_BLOCKED.
C8_MerchantMatching ==
    (Ev /\ EvOrgFound /\ ~(\E c \in LimitCodes : Rejected(EvRes, c))) =>
        IF FirstMerchantCode = "NONE" THEN EvRes.allowed
        ELSE Rejected(EvRes, FirstMerchantCode)

\* C8 witness: merchant "Ab" against the block-list entry "aB", which is also on
\* the allow list; the verdict is MERCHANT_BLOCKED.
C8_Witness ==
    /\ Ev /\ EvOrgFound
    /\ EvReq.merchantName = <<"A", "b">>
    /\ EvAgent.blockedMerchants = << << <<"a", "B">> >> >>
    /\ ListMatches(EvReq.merchantName, EvAgent.allowedMerchants)
    /\ Rejected(EvRes, "MERCHANT_BLOCKED")

(***************************************************************************)
(* Properties of the router (Spec).                                        *)
(***************************************************************************)
\* The last operation is a request_purchase whose arguments passed validation.
Handled == last.op = "request_purchase" /\ last.valid

HandledIntent == purchaseIntents[last.purchase_intent_id]

\* C3: every verdict has allowed = false => requiresApproval = false and
\* requiresApproval = true => allowed = true, and the handler takes exactly one
\* branch on it: the returned status is one of rejected, pending_approval and
\* approved, it is the persisted intent's status, a pending approval exists for
\* the intent exactly on pending_approval and a card exactly on approved.
C3_OneVerdictOneBranch ==
    Handled =>
        LET r == last.checkResult IN
        /\ ~r.allowed => ~r.requiresApproval
        /\ r.requiresApproval => r.allowed
        /\ last.status \in {"rejected", "pending_approval", "approved"}
        /\ last.status = "rejected" <=> ~r.allowed
        /\ last.status = "pending_approval" <=> r.requiresApproval
        /\ last.status = "approved" <=> (r.allowed /\ ~r.requiresApproval)
        /\ HandledIntent.status = last.status
        /\ (\E k \in 1..Len(pendingApprovals) :
                pendingApprovals[k].purchaseIntentId = HandledIntent.id)
              <=> last.status = "pending_approval"
        /\ (\E k \in 1..Len(cards) : cards[k].purchaseIntentId = HandledIntent.id)
              <=> last.status = "approved"

\* C3 witness: a request sent to approval after one that was approved.
C3_Witness ==
    /\ Handled /\ last.status = "pending_approval"
    /\ Len(purchaseIntents) = 2
    /\ purchaseIntents[1].status = "approved"

\* The request_purchase step that has just persisted an intent.
JustHandled == purchaseIntents' # purchaseIntents
NewIntent == purchaseIntents'[Len(purchaseIntents')]

MentionsNewVendor(text) ==
    text # Undefined /\ \E i \in 1..(Len(text[1]) - 2) :
        SubSeq(text[1], i, i + 2) = <<"new", " ", "vendor">>

NewVendorKinds == {"agent new vendor", "org new vendor"}

\* C9: with flagNewVendors on and no other rule firing, a request for a merchant
\* with no record for the agent's organization returns pending_approval with a
\* reason mentioning 'new vendor'; a recordMerchant call for an organization and a
\* merchant leaves the merchant on record, records are never dropped, and a
\* request for a merchant on record is not flagged for the new-vendor reason.
C9_NewVendorFlagging ==
    [][ /\ \A o \in OrgIds : \A m \in RouterMerchants :
              RecordMerchant(o, m) => LowerCased(m) \in merchants'[o]
        /\ \A o \in OrgIds : merchants[o] \subseteq merchants'[o]
        /\ (JustHandled /\ agents[NewIntent.agentId] # Undefined) =>
              LET agent == agents[NewIntent.agentId][1]
                  onRecord == LowerCased(NewIntent.merchantName)
                                  \in merchants[agent.organizationId]
                  kind == ReasonKind(last'.checkResult)
              IN  /\ ( /\ agent.flagNewVendors
                       /\ ~onRecord
                       /\ last'.status # "rejected"
                       /\ kind \notin {"agent threshold", "org threshold"} )
                        => /\ last'.status = "pending_approval"
                           /\ MentionsNewVendor(last'.message)
                  /\ onRecord => kind \notin NewVendorKinds
      ]_vars

\* C9 witness: with flagNewVendors on, a first request was sent to approval and a
\* second request for the same merchant is approved (the merchant was recorded in
\* between, which the router does not do on the approval path).
C9_Witness ==
    /\ Handled /\ last.status = "approved"
    /\ Len(purchaseIntents) = 2
    /\ agents[purchaseIntents[2].agentId][1].flagNewVendors
    /\ purchaseIntents[1].status = "pending_approval"
    /\ purchaseIntents[1].merchantName = purchaseIntents[2].merchantName
    /\ purchaseIntents[1].organizationId = purchaseIntents[2].organizationId

\* Every invocation so far was given the organization id of its agent.
RouterOrgIsAgentOrg ==
    \A k \in 1..Len(purchaseIntents) :
        agents[purchaseIntents[k].agentId] # Undefined =>
            purchaseIntents[k].organizationId
                = agents[purchaseIntents[k].agentId][1].organizationId

Within(limit, spent) == limit # Undefined => spent <= limit[1]

AgentCapsHold(a) ==
    agents[a] # Undefined =>
        /\ Within(agents[a][1].dailyLimit, spendTracking[a].daily)
        /\ Within(agents[a][1].monthlyLimit, spendTracking[a].monthly)

OrgCapsHold(o) ==
    organizations[o] # Undefined =>
        Within(organizations[o][1].monthlyBudget, spendTracking["org:" \o o].monthly)

\* C10: after any sequence of request_purchase invocations handled one at a time,
\* each given its agent's organization id, every agent's tracked daily and monthly
\* spend is within its dailyLimit and monthlyLimit and the organization's tracked
\* monthly spend is within its monthlyBudget, for each limit that is set.
C10_SpendingCapsHold ==
    RouterOrgIsAgentOrg =>
        /\ \A a \in AgentIds : AgentCapsHold(a)
        /\ \A o \in OrgIds : OrgCapsHold(o)

(***************************************************************************)
(* Properties of concurrent requests (SpecAsync).                          *)
(***************************************************************************)
\* The request has persisted its intent.
Persisted(id) == inflight[id].pc # "idle" /\ inflight[id].intentId # Undefined

IntentOfCall(id) == purchaseIntents[inflight[id].intentId[1]]

\* The request was approved on spend totals read before another approved request
\* added its amount.
ApprovedOnStaleTotals(id) ==
    /\ Persisted(id)
    /\ IntentOfCall(id).status = "approved"
    /\ inflight[id].stale

\* A cap of agent a1 or of organization o1 is exceeded by the tracked spend.
SomeCapExceeded == ~AgentCapsHold("a1") \/ ~OrgCapsHold("o1")

\* The amount of the intent alone is within every limit set for its agent and
\* the agent's organization.
FitsAlone(intent) ==
    LET agent == agents[intent.agentId][1]
        org == organizations[agent.organizationId][1]
    IN  /\ Within(agent.dailyLimit, intent.amount)
        /\ Within(agent.monthlyLimit, intent.amount)
        /\ Within(org.monthlyBudget, intent.amount)

\* C11: requests of one agent that interleave at their await points can be
\* approved on stale spend totals and leave the tracked spend above a limit
\* although each fits alone; the tracked spend is above a limit only then: some
\* approved request read the spend before another approved request persisted,
\* and every approved intent fits the limits alone.
C11_StaleTotalsBreakCaps ==
    SomeCapExceeded =>
        /\ \E id \in RequestIds : ApprovedOnStaleTotals(id)
        /\ \A k \in 1..Len(purchaseIntents) :
               purchaseIntents[k].status = "approved" => FitsAlone(purchaseIntents[k])

\* C11 witness: both requests are answered approved, each amount is within the
\* agent's dailyLimit, and the agent's tracked daily spend is above it.
C11_Witness ==
    /\ agents["a1"] # Undefined
    /\ agents["a1"][1].dailyLimit # Undefined
    /\ \A id \in RequestIds :
          /\ inflight[id].pc = "done"
          /\ Persisted(id)
          /\ IntentOfCall(id).status = "approved"
          /\ IntentOfCall(id).amount <= agents["a1"][1].dailyLimit[1]
    /\ spendTracking["a1"].daily > agents["a1"][1].dailyLimit[1]

\* The call was a validated request_purchase and every collaborator call of it
\* succeeded: it has been answered with a tool result.
Completed(id) ==
    /\ inflight[id].pc = "done"
    /\ validationError(inflight[id].args) = ""

ReturnedStatus(id) == inflight[id].response[1].result[1].data.status

C13_RejectPath ==
    [][ (JustHandled /\ ~last'.checkResult.allowed) =>
            /\ last'.status = "rejected"
            /\ Len(purchaseIntents') = Len(purchaseIntents) + 1
            /\ NewIntent.status = "rejected"
            /\ last'.checkResult.rejectionCode # Undefined
            /\ NewIntent.rejectionCode = last'.checkResult.rejectionCode
            /\ NewIntent.rejectionReason = last'.checkResult.rejectionMessage
            /\ last'.reason_code = last'.checkResult.rejectionCode
            /\ last'.message = last'.checkResult.rejectionMessage
            /\ cards' = cards
            /\ pendingApprovals' = pendingApprovals
            /\ merchants' = merchants
      ]_vars

\* C13 witness: after an approved purchase, a request of an unknown agent is
\* rejected AGENT_NOT_FOUND and persisted so; the one card is the earlier one.
C13_Witness ==
    /\ Handled /\ last.status = "rejected"
    /\ last.reason_code = <<"AGENT_NOT_FOUND">>
    /\ Len(purchaseIntents) = 2
    /\ purchaseIntents[1].status = "approved"
    /\ purchaseIntents[2].status = "rejected"
    /\ purchaseIntents[2].rejectionCode = <<"AGENT_NOT_FOUND">>
    /\ Len(cards) = 1 /\ cards[1].purchaseIntentId = 1

\* The approvals that refer to the intent with the given id.
ApprovalsOf(approvals, intentId) ==
    {k \in 1..Len(approvals) : approvals[k].purchaseIntentId = intentId}

\* Pending approvals and intents correspond one to one, and no card was issued
\* for an intent awaiting approval.
ApprovalsMatchIntents(intents, approvals, issued) ==
    /\ \A k \in 1..Len(approvals) :
          /\ approvals[k].status = "pending"
          /\ approvals[k].purchaseIntentId \in 1..Len(intents)
          /\ intents[approvals[k].purchaseIntentId].id = approvals[k].purchaseIntentId
          /\ intents[approvals[k].purchaseIntentId].status = "pending_approval"
    /\ \A i \in 1..Len(intents) :
          intents[i].status = "pending_approval" =>
              /\ Cardinality(ApprovalsOf(approvals, intents[i].id)) = 1
              /\ \A c \in 1..Len(issued) : issued[c].purchaseIntentId # intents[i].id

TextContains(approvalReason, word) ==
    approvalReason # Undefined /\ HasFragment(approvalReason[1], word)

\* C15: the category derived from an approvalReason is OVER_THRESHOLD when the
\* text contains 'threshold', otherwise NEW_VENDOR when it contains 'vendor',
\* otherwise (an absent text included) ORG_GUARDRAIL; it is never MANUAL_REVIEW.
C15_CategoryByOrderedTest ==
    last.op = "approvalCategory" =>
        /\ last.reason =
              (IF TextContains(last.approvalReason, "threshold") THEN "OVER_THRESHOLD"
               ELSE IF TextContains(last.approvalReason, "vendor") THEN "NEW_VENDOR"
               ELSE "ORG_GUARDRAIL")
        /\ last.reason # "MANUAL_REVIEW"

\* C15 witness: a text with 'vendor' ahead of 'threshold' is OVER_THRESHOLD.
C15_Witness ==
    /\ last.op = "approvalCategory"
    /\ last.approvalReason = << <<"vendor", "threshold">> >>
    /\ last.reason = "OVER_THRESHOLD"

(***************************************************************************)
(* Properties of the steps of one request (SpecAsync).                     *)
(***************************************************************************)
\* The cards issued for the intent of the call.
CardsOf(id) ==
    {c \in 1..Len(cards) : cards[c].purchaseIntentId = inflight[id].intentId[1]}

\* Where each call stands on the approved path: before the card there is the
\* approved intent and no card for it; after the card there is exactly one, for
\* the intent and the requested amount and currency; the answer comes with the
\* merchant on record and names the requested amount and the intent; no card is
\* issued for an intent that is not approved.
ApprovedPathInOrder ==
    \A id \in RequestIds :
        LET call == inflight[id] IN
        /\ call.pc = "card" =>
              /\ Persisted(id) /\ IntentOfCall(id).status = "approved"
              /\ CardsOf(id) = {}
        /\ (call.pc = "record" \/ (Completed(id) /\ ReturnedStatus(id) = "approved")) =>
              /\ Persisted(id) /\ IntentOfCall(id).status = "approved"
              /\ Cardinality(CardsOf(id)) = 1
              /\ \A c \in CardsOf(id) :
                    /\ cards[c].hardLimit = call.args.amount.v
                    /\ cards[c].currency = call.args.currency.v
        /\ (Completed(id) /\ ReturnedStatus(id) = "approved") =>
              /\ call.response[1].result[1].data.hard_limit_amount = call.args.amount.v
              /\ call.response[1].result[1].data.purchase_intent_id = call.intentId[1]
              /\ LowerCased(call.args.merchant_name.v) \in merchants[call.organizationId]
        /\ (Persisted(id) /\ IntentOfCall(id).status # "approved") => CardsOf(id) = {}

\* C16: on the approved path the intent is persisted, then the card is requested,
\* then the merchant is recorded: a card is issued only by a call whose approved
\* intent is persisted, once, for that intent and the requested amount and
\* currency; the merchants change only by a call whose card was issued; and the
\* answer carries hard_limit_amount equal to the requested amount.
C16_ApprovedPathOrder ==
    [][ /\ ApprovedPathInOrder'
        /\ cards' # cards =>
               \E id \in RequestIds :
                   /\ inflight[id].pc = "card" /\ inflight'[id].pc = "record"
                   /\ Len(cards') = Len(cards) + 1
                   /\ cards'[Len(cards')].purchaseIntentId = inflight[id].intentId[1]
                   /\ purchaseIntents[inflight[id].intentId[1]].status = "approved"
        /\ merchants' # merchants =>
               \E id \in RequestIds :
                   /\ inflight[id].pc = "record" /\ inflight'[id].pc = "done"
                   /\ CardsOf(id) # {}
      ]_vars

\* C16 witness: one call is answered approved, with its card for the requested
\* amount, while the other has its approved intent persisted and no card yet.
C16_Witness ==
    \E id1, id2 \in RequestIds :
        /\ Completed(id1) /\ ReturnedStatus(id1) = "approved"
        /\ \E c \in CardsOf(id1) : cards[c].hardLimit = MaxLimit
        /\ inflight[id1].args.amount.v = MaxLimit
        /\ inflight[id2].pc = "card"

(***************************************************************************)
(* Properties of the argument validation (SpecValidation).                 *)
(***************************************************************************)
IsString(arg) == arg.t = "string"

IsPositiveNumber(arg) == arg.t = "number" /\ arg.v > 0

WellFormed(args) ==
    /\ IsPositiveNumber(args.amount) /\ IsString(args.currency)
    /\ IsString(args.description) /\ IsString(args.merchant_name)

\* The message of the first failing check in the order amount, currency,
\* description, merchant_name.
FirstValidationMessage(args) ==
    IF ~IsPositiveNumber(args.amount) THEN "Error: 'amount' must be a positive number"
    ELSE IF ~IsString(args.currency) THEN "Error: 'currency' is required"
    ELSE IF ~IsString(args.description) THEN "Error: 'description' is required"
    ELSE "Error: 'merchant_name' is required"

Stored ==
    <<agents, organizations, spendTracking, merchants, purchaseIntents,
      pendingApprovals, cards>>

\* The call is inside checkSpending, or was abandoned there: no verdict yet.
BeforeVerdict(id) ==
    /\ inflight[id].pc \in EvaluationStages \cup {"failed"}
    /\ inflight[id].checkResult = Undefined

\* C18: checkSpending is read-only and the handler writes only after it: a step
\* of a call inside checkSpending, whatever it decides, and the receipt of a
\* call, leave everything stored unchanged; what is stored changes only by a
\* call that holds its verdict; and a call that has no verdict yet, or was
\* abandoned before it, has persisted no intent.
C18_EvaluatorReadsOnly ==
    [][ /\ \A id \in RequestIds :
              (inflight[id].pc \in EvaluationStages \cup {"idle"}
                  /\ inflight'[id].pc # inflight[id].pc) => Stored' = Stored
        /\ Stored' # Stored =>
              \E id \in RequestIds :
                  /\ inflight[id].pc \in WriteStages
                  /\ inflight[id].checkResult # Undefined
                  /\ inflight'[id].pc # inflight[id].pc
        /\ \A id \in RequestIds :
              (inflight'[id].pc # "idle" /\ BeforeVerdict(id)') => ~Persisted(id)'
      ]_vars

\* C18 witness: one call was abandoned inside checkSpending while the other went
\* through approved; the one intent, the one card and the tracked spend are the
\* other call's.
C18_Witness ==
    \E id1, id2 \in RequestIds :
        /\ inflight[id1].pc = "failed" /\ BeforeVerdict(id1)
        /\ Completed(id2) /\ ReturnedStatus(id2) = "approved"
        /\ Len(purchaseIntents) = 1 /\ Len(cards) = 1
        /\ spendTracking["a1"].daily = inflight[id2].args.amount.v

\* The response is a JSON-RPC error with the given code, for the given request.
IsErrorResponse(response, id, code) ==
    /\ response # Undefined
    /\ response[1].jsonrpc = "2.0"
    /\ response[1].id = id
    /\ response[1].result = Undefined
    /\ response[1].error # Undefined
    /\ response[1].error[1].code = code

\* C19: a call during which a storage or payment collaborator threw is answered,
\* not left to throw: its response is a JSON-RPC error with code InternalError
\* and the id of the request, without a result member; and only such calls are
\* answered with an error.
C19_FailuresBecomeInternalError ==
    \A id \in RequestIds :
        /\ inflight[id].pc = "failed"
              => IsErrorResponse(inflight[id].response, id, InternalError)
        /\ inflight[id].pc = "done" =>
              /\ inflight[id].response # Undefined
              /\ inflight[id].response[1].id = id
              /\ inflight[id].response[1].error = Undefined
              /\ inflight[id].response[1].result # Undefined

\* C19 witness: createVirtualCard threw for a call whose approved intent is
\* persisted; the call is answered with the internal error and has no card.
C19_Witness ==
    \E id \in RequestIds :
        /\ inflight[id].pc = "failed"
        /\ Persisted(id) /\ IntentOfCall(id).status = "approved"
        /\ CardsOf(id) = {}
        /\ IsErrorResponse(inflight[id].response, id, InternalError)

(***************************************************************************)
(* C20.  check_budget, list_transactions and get_policy_info are read-only *)
(* projections: a call of one of them leaves every stored collection       *)
(* (agents, organizations, spend, merchants, intents, approvals, cards) as *)
(* it was; and what get_policy_info returns for an agent and an            *)
(* organization is the same before and after any step that leaves the      *)
(* agents and the organizations unchanged, so two calls with unchanged     *)
(* agent and organization state return identical output, whatever was      *)
(* purchased in between.                                                   *)
(***************************************************************************)
ReadTools == {"check_budget", "list_transactions", "get_policy_info"}

C20_ReadToolsAreProjections ==
    [][/\ last'.op \in ReadTools => Stored' = Stored
       /\ \A agentId \in AgentIds : \A organizationId \in OrgIds :
              /\ (/\ last'.op = "get_policy_info"
                  /\ last'.agentId = agentId
                  /\ last'.organizationId = organizationId)
                     => last'.result = handleGetPolicyInfo(agentId, organizationId)'
              /\ (agents' = agents /\ organizations' = organizations)
                     => handleGetPolicyInfo(agentId, organizationId)'
                            = handleGetPolicyInfo(agentId, organizationId)]_vars

\* get_policy_info answered with the policy after a purchase was approved and
\* counted in the agent's spend.
C20_Witness ==
    /\ last.op = "get_policy_info"
    /\ ~last.result.isError
    /\ getAgentSpend(last.agentId, "daily") > 0
    /\ \E k \in 1..Len(purchaseIntents) : purchaseIntents[k].status = "approved"

(***************************************************************************)
(* C21.  Every answer of handleRequest carries the request's id and        *)
(* exactly one of result and error.  tools/call is routed to the tool      *)
(* named, for the four tools only: with no tool name (no params, no name,  *)
(* an empty name) the answer is error InvalidParams, with any other name   *)
(* error MethodNotFound; a method outside the six the server answers gets  *)
(* error MethodNotFound.  A step answered with an error leaves every       *)
(* stored collection and the record of the last tool invocation unchanged: *)
(* no handler, evaluator or provider was reached.                          *)
(***************************************************************************)
AnsweredMethods ==
    {"initialize", "initialized", "tools/list", "tools/call", "resources/list",
     "prompts/list"}

HasToolName(request) ==
    /\ request.params # Undefined
    /\ request.params[1].name # Undefined
    /\ request.params[1].name[1] # ""

NamedTool(request) == request.params[1].name[1]

IsError(response, code) ==
    /\ response.result = Undefined
    /\ response.error # Undefined
    /\ response.error[1].code = code

IsResult(response) == response.result # Undefined /\ response.error = Undefined

C21_RoutingAndErrors ==
    [][\A id \in RequestIds :
          inflight'[id].pc = "answered" =>
              LET request == inflight'[id].request
                  response == inflight'[id].response[1]
              IN  /\ request.id = id
                  /\ response.id = id
                  /\ response.jsonrpc = "2.0"
                  /\ (response.result = Undefined) # (response.error = Undefined)
                  /\ request.method \notin AnsweredMethods
                         => IsError(response, MethodNotFound)
                  /\ (request.method \in AnsweredMethods \ {"tools/call"})
                         => IsResult(response) /\ last' = last /\ Stored' = Stored
                  /\ (request.method = "tools/call" /\ ~HasToolName(request))
                         => IsError(response, InvalidParams)
                  /\ (/\ request.method = "tools/call"
                      /\ HasToolName(request)
                      /\ NamedTool(request) \notin
                             {"request_purchase", "check_budget",
                              "list_transactions", "get_policy_info"})
                         => IsError(response, MethodNotFound)
                  /\ (/\ request.method = "tools/call"
                      /\ HasToolName(request)
                      /\ NamedTool(request) \in
                             {"request_purchase", "check_budget",
                              "list_transactions", "get_policy_info"})
                         => /\ IsResult(response)
                            /\ last'.op = NamedTool(request)
                            /\ response.result[1] = last'
                  /\ response.error # Undefined
                         => last' = last /\ Stored' = Stored]_vars

\* A tools/call naming no tool of the server is answered MethodNotFound after
\* a purchase was persisted and answered.
C21_Witness ==
    \E id \in RequestIds :
        /\ inflight[id].pc = "answered"
        /\ inflight[id].request.method = "tools/call"
        /\ HasToolName(inflight[id].request)
        /\ NamedTool(inflight[id].request) = "approve_purchase"
        /\ IsError(inflight[id].response[1], MethodNotFound)
        /\ last.op = "request_purchase"
        /\ Len(purchaseIntents) = 1

(***************************************************************************)
(* C22.  Tracked spend changes only when an intent is created approved: a  *)
(* step that persists an approved intent of amount a adds exactly a to the *)
(* agent's daily and monthly totals and to the daily and monthly totals of *)
(* the organization the router named, and leaves the other totals alone;   *)
(* a step that persists a rejected or a pending_approval intent, and every *)
(* other step, leaves every total unchanged.                               *)
(***************************************************************************)
AddedTo(key, amount) ==
    /\ spendTracking'[key].daily = spendTracking[key].daily + amount
    /\ spendTracking'[key].monthly = spendTracking[key].monthly + amount

CreatedIntent == purchaseIntents'[Len(purchaseIntents')]

C22_SpendTracksApprovedOnly ==
    [][IF Len(purchaseIntents') = Len(purchaseIntents) + 1
          /\ CreatedIntent.status = "approved"
       THEN /\ last'.status = "approved"
            /\ AddedTo(CreatedIntent.agentId, CreatedIntent.amount)
            /\ AddedTo(OrgKey(CreatedIntent.organizationId), CreatedIntent.amount)
            /\ \A k \in SpendKeys \ {CreatedIntent.agentId,
                                     OrgKey(CreatedIntent.organizationId)} :
                   spendTracking'[k] = spendTracking[k]
       ELSE spendTracking' = spendTracking]_vars

\* Two requests were both sent to approval: each was evaluated against a spend
\* of zero, and their sum is above the daily limit.
C22_PendingSumAboveLimit ==
    /\ Len(purchaseIntents) = 2
    /\ \A k \in 1..2 : purchaseIntents[k].status = "pending_approval"
    /\ agents["a1"][1].dailyLimit # Undefined
    /\ purchaseIntents[1].amount + purchaseIntents[2].amount
           > agents["a1"][1].dailyLimit[1]
    /\ getAgentSpend("a1", "daily") = 0
    /\ last.op = "request_purchase" /\ last.status = "pending_approval"

(***************************************************************************)
(* C23.  updatePurchaseIntent never changes spend totals: a step that      *)
(* moves a stored intent to another status (pending_approval to approved,  *)
(* approved to rejected or expired) leaves every total as it was.  So no   *)
(* total ever decreases, and an agent's total is the sum of the amounts of *)
(* its intents that the router approved (those with a card), whatever      *)
(* their status is now: purchases approved by a human are not in it.       *)
(***************************************************************************)
HasCard(intentId) == \E c \in 1..Len(cards) : cards[c].purchaseIntentId = intentId

RECURSIVE RouterApprovedTotal(_, _)
\* The sum of the amounts of the agent's first n intents that have a card.
RouterApprovedTotal(agentId, n) ==
    IF n = 0 THEN 0
    ELSE RouterApprovedTotal(agentId, n - 1)
         + (IF purchaseIntents[n].agentId = agentId /\ HasCard(purchaseIntents[n].id)
            THEN purchaseIntents[n].amount ELSE 0)

StatusMoved ==
    /\ Len(purchaseIntents') = Len(purchaseIntents)
    /\ \E k \in 1..Len(purchaseIntents) :
           purchaseIntents'[k].status # purchaseIntents[k].status

SpendIsRouterApproved ==
    \A period \in {"daily", "monthly"} :
        getAgentSpend("a1", period) = RouterApprovedTotal("a1", Len(purchaseIntents))

FlaggingOn(agent) ==
    \/ agent.flagNewVendors
    \/ /\ organizations[agent.organizationId] # Undefined
       /\ GuardrailsOf(organizations[agent.organizationId][1]).flagAllNewVendors

C24_NewVendorStaysNew ==
    [][(/\ JustHandled
        /\ agents[NewIntent.agentId] # Undefined
        /\ FlaggingOn(agents[NewIntent.agentId][1])
        /\ NewIntent.organizationId = agents[NewIntent.agentId][1].organizationId)
           => /\ merchants' = merchants
              /\ (/\ LowerCased(NewIntent.merchantName)
                         \notin merchants[NewIntent.organizationId]
                  /\ last'.status # "rejected")
                     => /\ last'.status = "pending_approval"
                        /\ cards' = cards]_vars

\* With flagging on, two requests for the same merchant were both sent to
\* approval as a new vendor, and the organization still knows no merchant.
C24_Witness ==
    /\ Len(purchaseIntents) = 2
    /\ \A k \in 1..2 :
           /\ purchaseIntents[k].status = "pending_approval"
           /\ purchaseIntents[k].merchantName = <<"B">>
           /\ purchaseIntents[k].organizationId = "o1"
           /\ agents[purchaseIntents[k].agentId] # Undefined
           /\ FlaggingOn(agents[purchaseIntents[k].agentId][1])
           /\ MentionsNewVendor(pendingApprovals[k].reasonDetails)
    /\ merchants["o1"] = {}

(***************************************************************************)
(* C25.  The evaluator reads the organization of agent.organizationId; the *)
(* router writes under the organization id it was given.  When the two     *)
(* differ, a step that approves a purchase leaves the tracked spend and    *)
(* the known merchants of the agent's organization unchanged (the amount   *)
(* and the merchant go to the organization the router named).              *)
(***************************************************************************)
ApprovedUnderOtherOrg ==
    /\ JustHandled
    /\ NewIntent.status = "approved"
    /\ agents[NewIntent.agentId] # Undefined
    /\ NewIntent.organizationId # agents[NewIntent.agentId][1].organizationId

C25_EvaluatedOrgUnchanged ==
    [][ApprovedUnderOtherOrg =>
           LET evaluated == agents[NewIntent.agentId][1].organizationId
           IN  /\ spendTracking'[OrgKey(evaluated)] = spendTracking[OrgKey(evaluated)]
               /\ merchants'[evaluated] = merchants[evaluated]
               /\ LowerCased(NewIntent.merchantName)
                      \in merchants'[NewIntent.organizationId]]_vars

\* C25 for agents whose id is not the spend key of an organization.
C25_UnchangedWithoutKeyCollision ==
    [][(ApprovedUnderOtherOrg /\ NewIntent.agentId \notin { OrgKey(o) : o \in OrgIds }) =>
           LET evaluated == agents[NewIntent.agentId][1].organizationId
           IN  /\ spendTracking'[OrgKey(evaluated)] = spendTracking[OrgKey(evaluated)]
               /\ merchants'[evaluated] = merchants[evaluated]
               /\ LowerCased(NewIntent.merchantName)
                      \in merchants'[NewIntent.organizationId]]_vars

\* An agent of o1 was approved under o2: o1's spend and record are empty.
C25_ApprovedUnderOtherOrgReached ==
    /\ Handled /\ last.status = "approved"
    /\ HandledIntent.agentId = "a1"
    /\ HandledIntent.organizationId = "o2"
    /\ getOrgSpend("o1", "monthly") = 0
    /\ getOrgSpend("o2", "monthly") = HandledIntent.amount
    /\ merchants["o1"] = {}

(***************************************************************************)
(* C26.  Whatever the merchant's name, a request sent to approval for the  *)
(* new-vendor reason (agent or organization flagging) is recorded with     *)
(* PendingApproval.reason NEW_VENDOR, and one sent to approval for the     *)
(* agent's approvalThreshold with reason OVER_THRESHOLD.                   *)
(***************************************************************************)
SentToApproval == JustHandled /\ last'.status = "pending_approval"

RecordedApproval == pendingApprovals'[Len(pendingApprovals')]

C26_ReasonCategoryRecorded ==
    [][SentToApproval =>
           /\ RecordedApproval.purchaseIntentId = NewIntent.id
           /\ ReasonKind(last'.checkResult) \in NewVendorKinds
                  => RecordedApproval.reason = "NEW_VENDOR"
           /\ ReasonKind(last'.checkResult) = "agent threshold"
                  => RecordedApproval.reason = "OVER_THRESHOLD"]_vars

\* C26 for merchants whose name does not contain the word threshold.
C26_RecordedWithoutThresholdInName ==
    [][(SentToApproval /\ ~HasFragment(NewIntent.merchantName, "threshold")) =>
           /\ ReasonKind(last'.checkResult) \in NewVendorKinds
                  => RecordedApproval.reason = "NEW_VENDOR"
           /\ ReasonKind(last'.checkResult) = "agent threshold"
                  => RecordedApproval.reason = "OVER_THRESHOLD"]_vars

(***************************************************************************)
(* C27.  No request sent to approval through the router is recorded with   *)
(* the category ORG_GUARDRAIL: every recorded PendingApproval has reason   *)
(* OVER_THRESHOLD or NEW_VENDOR, and an approval required by the           *)
(* organization guardrail requireApprovalAbove is recorded as              *)
(* OVER_THRESHOLD.                                                         *)
(***************************************************************************)
C27_OrgGuardrailUnreachable ==
    [][SentToApproval =>
           /\ ReasonKind(last'.checkResult)
                  \in {"agent threshold", "org threshold"} \cup NewVendorKinds
           /\ RecordedApproval.reason \in {"OVER_THRESHOLD", "NEW_VENDOR"}
           /\ ReasonKind(last'.checkResult) = "org threshold"
                  => RecordedApproval.reason = "OVER_THRESHOLD"]_vars

\* A request above the organization's requireApprovalAbove was sent to approval
\* and recorded as OVER_THRESHOLD.
C27_Witness ==
    /\ Handled /\ last.status = "pending_approval"
    /\ ReasonKind(last.checkResult) = "org threshold"
    /\ GuardrailsOf(organizations["o1"][1]).requireApprovalAbove # Undefined
    /\ pendingApprovals[Len(pendingApprovals)].purchaseIntentId = last.purchase_intent_id
    /\ pendingApprovals[Len(pendingApprovals)].reason = "OVER_THRESHOLD"

(***************************************************************************)
(* C28.  Nothing is rolled back when card issuance fails.  In the step in  *)
(* which createVirtualCard throws, the approved intent stays persisted,    *)
(* the spend totals keep its amount, no card exists for it, and the call   *)
(* is answered with an InternalError response; the call takes no further   *)
(* step, so recordMerchant is not called for it.                           *)
(***************************************************************************)
CardIssuanceFails(id) == inflight[id].pc = "card" /\ inflight'[id].pc = "failed"

C28_NoRollback ==
    [][\A id \in RequestIds :
          /\ CardIssuanceFails(id) =>
                 /\ Stored' = Stored
                 /\ IntentOfCall(id)'.status = "approved"
                 /\ IntentOfCall(id)'.amount = inflight[id].args.amount.v
                 /\ getAgentSpend(inflight[id].agentId, "daily")'
                        >= inflight[id].args.amount.v
                 /\ getOrgSpend(inflight[id].organizationId, "monthly")'
                        >= inflight[id].args.amount.v
                 /\ CardsOf(id)' = {}
                 /\ IsErrorResponse(inflight'[id].response, id, InternalError)
          /\ inflight[id].pc = "failed" => inflight'[id] = inflight[id]]_vars

\* createVirtualCard threw for the only request made: its approved intent is
\* stored, its amount is the agent's and the organization's spend, there is no
\* card, the merchant is not on record, and the caller got InternalError.
C28_Witness ==
    /\ inflight["r1"].pc = "failed"
    /\ inflight["r2"].pc = "idle"
    /\ Len(purchaseIntents) = 1
    /\ purchaseIntents[1].status = "approved"
    /\ inflight["r1"].intentId = Some(1)
    /\ getAgentSpend("a1", "daily") = purchaseIntents[1].amount
    /\ getOrgSpend("o1", "monthly") = purchaseIntents[1].amount
    /\ cards = <<>>
    /\ merchants["o1"] = {}
    /\ IsErrorResponse(inflight["r1"].response, "r1", InternalError)

(***************************************************************************)
(* C29.  The verdict depends neither on the agent's lifecycle status nor   *)
(* on the request's currency or description.  A step that changes nothing  *)
(* but the status of agents leaves the verdict of every request as it was; *)
(* in every state, requests that differ only in currency and description   *)
(* get the same verdict; and a handled request's verdict is the one of the *)
(* request in usd with description d.  A paused or suspended agent is      *)
(* approved and issued a card as an active one.                            *)
(***************************************************************************)
ProbeRequests ==
    { [agentId |-> "a1", amount |-> a, currency |-> "usd", merchantName |-> <<"B">>,
       description |-> "d"] : a \in {1, 2, 3} }

OnlyStatusChanged ==
    /\ agents' # agents
    /\ \A a \in AgentIds :
           IF agents[a] = Undefined THEN agents'[a] = Undefined
           ELSE /\ agents'[a] # Undefined
                /\ [agents'[a][1] EXCEPT !.status = agents[a][1].status] = agents[a][1]
    /\ UNCHANGED <<organizations, spendTracking, merchants, purchaseIntents,
                   pendingApprovals, cards>>

C29_VerdictIgnoresStatus ==
    [][/\ OnlyStatusChanged =>
              \A r \in ProbeRequests : checkSpending(r)' = checkSpending(r)
       /\ \A r \in ProbeRequests : \A c \in {"usd", "eur"} : \A d \in {"d", "e"} :
              checkSpending([r EXCEPT !.currency = c, !.description = d])'
                  = checkSpending(r)'
       /\ JustHandled =>
              /\ last'.checkResult =
                     checkSpending([agentId |-> NewIntent.agentId,
                                    amount |-> NewIntent.amount, currency |-> "usd",
                                    merchantName |-> NewIntent.merchantName,
                                    description |-> "d"])
              /\ last'.status = "approved" <=> Len(cards') = Len(cards) + 1]_vars

\* A suspended agent's request in another currency was approved and a card was
\* issued for it.
C29_Witness ==
    /\ Handled /\ last.status = "approved"
    /\ agents["a1"] # Undefined
    /\ agents["a1"][1].status = "suspended"
    /\ HandledIntent.currency = "eur"
    /\ HasCard(HandledIntent.id)
    /\ Len(purchaseIntents) = 2
    /\ purchaseIntents[1].status = "approved"

(***************************************************************************)
(* C30: the generic MCPServer turns a tool handler's exception into a     *)
(* tool result and other failures into JSON-RPC errors.                   *)
(***************************************************************************)
ServerAnswered == last.op = "MCPServer.handleRequest"

\* The last request names a tool that is registered.
CallsRegisteredTool ==
    /\ ServerAnswered
    /\ last.request.method = "tools/call"
    /\ last.request.params # Undefined
    /\ last.request.params[1].name # Undefined
    /\ last.request.params[1].name[1] \in DOMAIN tools
    /\ tools[last.request.params[1].name[1]] # Undefined

CalledTool == tools[last.request.params[1].name[1]][1]

\* The last request names, with a non-empty name, something of the given registry.
Names(method, registered) ==
    /\ ServerAnswered
    /\ last.request.method = method
    /\ last.request.params # Undefined
    /\ last.request.params[1].name # Undefined
    /\ last.request.params[1].name[1] # ""
    /\ last.request.params[1].name[1] \in registered

ThrownMessage(callback, fallback) ==
    IF callback.message = Undefined THEN fallback ELSE callback.message[1]

\* C30 (as stated): a tools/call for a registered tool always yields a success
\* response, with a result member and no error member.
C30_RegisteredToolAlwaysSucceeds ==
    CallsRegisteredTool => IsResult(last.response)

\* C30 (amended): a tools/call for a tool registered under a non-empty name
\* yields a success response whenever the context is created, also when the
\* handler throws: the exception becomes a result with isError = true and the
\* text "Error: " followed by the Error's message ("Tool execution failed" for a
\* thrown value that is no Error); when the context factory throws, the response
\* is the error InternalError.  A tools/call for a non-empty name that is not
\* registered at that moment yields the error MethodNotFound, and a resources/read
\* or prompts/get whose handler throws yields the error InternalError.
C30_HandlerFailuresByKind ==
    /\ (CallsRegisteredTool /\ Names("tools/call", ServerToolNames)) =>
           IF last.context.throws
           THEN /\ IsError(last.response, "InternalError")
                /\ last.response.error[1].message =
                       ThrownMessage(last.context, "Internal server error")
           ELSE /\ IsResult(last.response)
                /\ last.response.id = last.request.id
                /\ last.response.result[1] =
                       IF CalledTool.throws
                       THEN [isError |-> TRUE,
                             text |-> "Error: " \o
                                      ThrownMessage(CalledTool, "Tool execution failed")]
                       ELSE [isError |-> FALSE, text |-> "ok"]
    /\ (Names("tools/call", ServerRequestNames) /\ ~CallsRegisteredTool) =>
           IsError(last.response, "MethodNotFound")
    /\ (/\ ServerAnswered
        /\ last.request.method = "resources/read"
        /\ last.request.params # Undefined
        /\ last.request.params[1].uri \in {Some("res://b"), Some("res://c")}) =>
           IsError(last.response, "InternalError")
    /\ Names("prompts/get", {"q", "s"}) => IsError(last.response, "InternalError")

\* C30 witness: a registered tool whose handler threw an Error was called with
\* the context created, and the response carries the error as a tool result.
C30_Witness ==
    /\ CallsRegisteredTool
    /\ ~last.context.throws
    /\ CalledTool.throws /\ CalledTool.message = Some("boom")
    /\ IsResult(last.response)
    /\ last.response.result[1] = [isError |-> TRUE, text |-> "Error: boom"]

====
